---- MODULE Spec2Model ----
(***************************************************************************)
(* State-machine model of the data quality analyzer:                       *)
(*   - the feature readiness checks (ai_core/feature_readiness), under     *)
(*     the specification Spec;                                             *)
(*   - the category aggregators over the claims collection                 *)
(*     (ai_core/data_quality), under the specification SpecQuality;        *)
(*   - get_rare_cpt_codes as a function of its arguments, under SpecRare;  *)
(*   - the run of the report assembler, under SpecReport;                  *)
(*   - run_all_readiness_checks of main.py, under SpecMain;                *)
(*   - the payer and CPT distributions of overviewpayer_analysis.py and    *)
(*     scripts/analyze_dataquality.py, under SpecDistribution.             *)
(*                                                                         *)
(* Numbers.  Weights are kept in tenths (0.4 -> 4), fractions of the       *)
(* settings in hundredths (0.5 -> 50), and a readiness score is the exact  *)
(* rational num/den; IEEE rounding of the float arithmetic is not          *)
(* modelled.  Amounts of the claims are kept in thousandths of a dollar,   *)
(* and a rounded percentage is the integer units of 10^-decimals it holds. *)
(***************************************************************************)
EXTENDS Integers, Sequences, FiniteSets, TLC

\* ------------------------------------------------------------------------
\* Bounds of the model
\* ------------------------------------------------------------------------

\* how many results a generic run_checks implementation may build
MaxGenericResults == 3

\* ------------------------------------------------------------------------
\* Enums and CheckResult (base_standalone.py)
\* ------------------------------------------------------------------------

None == "None"

FeatureIssueSeverity == {"critical", "high", "medium", "low"}

CheckStatus == {"passed", "failed"}

\* class attributes of the three checker classes
FeatureNames == {"charge_analysis", "additional_charge", "unknown"}

feature_module == "ais"

\* CheckResult(module, key, name, description, status, severity, solution);
\* name and description are free text and are left out, created_at is a clock
CheckResult(module, key, status, severity, solution) ==
    [module |-> module, key |-> key, status |-> status,
     severity |-> severity, solution |-> solution]

\* mutant of create_check_result: the arguments are stored whatever the status
create_check_result_keep(feature_name, key, status, severity, solution) ==
    CheckResult(feature_module,
                feature_module \o "." \o feature_name \o "." \o key,
                status, severity, solution)

\* mutant of create_check_result: the key is not prefixed
create_check_result_barekey(feature_name, key, status, severity, solution) ==
    IF status = "failed"
    THEN CheckResult(feature_module, key, status, severity, solution)
    ELSE CheckResult(feature_module, key, status, None, None)

create_check_result(feature_name, key, status, severity, solution) ==
    LET full_key == feature_module \o "." \o feature_name \o "." \o key
    IN  IF status = "failed"
        THEN CheckResult(feature_module, full_key, status, severity, solution)
        ELSE CheckResult(feature_module, full_key, status, None, None)

\* ------------------------------------------------------------------------
\* Scoring (base_standalone.py)
\* ------------------------------------------------------------------------

WeightCritical == 4
WeightHigh == 3
WeightMedium == 2
WeightLow == 1
\* weight of a passed result, and of weights.get's default
WeightDefault == 2

\* mutant of SeverityWeight: critical weighs like high
SeverityWeightFlat(severity) ==
    CASE severity = "critical" -> WeightHigh
      [] severity = "high" -> WeightHigh
      [] severity = "medium" -> WeightMedium
      [] severity = "low" -> WeightLow
      [] OTHER -> WeightDefault

\* weights.get(result.severity, 0.2)
SeverityWeight(severity) ==
    CASE severity = "critical" -> WeightCritical
      [] severity = "high" -> WeightHigh
      [] severity = "medium" -> WeightMedium
      [] severity = "low" -> WeightLow
      [] OTHER -> WeightDefault

\* the weight the loop gives one result
ResultWeight(result) ==
    IF result.status = "failed" /\ result.severity # None
    THEN SeverityWeight(result.severity)
    ELSE WeightDefault

\* mutant of ScoreLoop: passed_weight grows for every result
RECURSIVE ScoreLoopUnguarded(_, _)
ScoreLoopUnguarded(results, n) ==
    IF n = 0 THEN <<0, 0>>
    ELSE LET acc == ScoreLoopUnguarded(results, n - 1)
             weight == ResultWeight(results[n])
         IN  <<acc[1] + weight, acc[2] + weight>>

\* the loop over results: <<total_weight, passed_weight>> after the first n
RECURSIVE ScoreLoop(_, _)
ScoreLoop(results, n) ==
    IF n = 0 THEN <<0, 0>>
    ELSE LET acc == ScoreLoop(results, n - 1)
             weight == ResultWeight(results[n])
         IN  <<acc[1] + weight,
               IF results[n].status = "passed" THEN acc[2] + weight ELSE acc[2]>>

Rational(num, den) == [num |-> num, den |-> den]

Zero == Rational(0, 1)

calculate_readiness_score(results) ==
    IF results = <<>> THEN Zero
    ELSE LET acc == ScoreLoop(results, Len(results))
         IN  IF acc[1] = 0 THEN Zero
             ELSE Rational(acc[2] * 100, acc[1])

\* score >= k for a rational score
ScoreGE(score, k) == score.num >= k * score.den

ReadyThreshold == 80
PartialThreshold == 50

\* mutant of get_readiness_status: strict comparisons
get_readiness_status_strict(score) ==
    IF score.num > ReadyThreshold * score.den THEN "Ready"
    ELSE IF score.num > PartialThreshold * score.den THEN "Partial"
    ELSE "Not Ready"

get_readiness_status(score) ==
    IF ScoreGE(score, ReadyThreshold) THEN "Ready"
    ELSE IF ScoreGE(score, PartialThreshold) THEN "Partial"
    ELSE "Not Ready"

\* ------------------------------------------------------------------------
\* The app_settings document and its schema (appsettings.py)
\* ------------------------------------------------------------------------

\* a stored field: absent from the document, null, or set to a value
Absent == [state |-> "absent"]
Null == [state |-> "null"]
Num(v) == [state |-> "set", value |-> v]

\* the readiness_settings fields the charge analysis validation requires
ThresholdNames ==
    {"claims_with_charges_threshold", "cpt_diversity_threshold",
     "stats_coverage_threshold", "stats_minimum_record_count",
     "stats_minimum_avg_record_count", "stats_minimum_cpts_per_payer",
     "stats_maximum_staleness_days"}

\* Field(default=...) of ReadinessCheckSettings; stats_coverage_threshold 0.5
\* is kept in hundredths
DefaultThreshold(name) ==
    CASE name = "claims_with_charges_threshold" -> 10
      [] name = "cpt_diversity_threshold" -> 5
      [] name = "stats_coverage_threshold" -> 50
      [] name = "stats_minimum_record_count" -> 3
      [] name = "stats_minimum_avg_record_count" -> 5
      [] name = "stats_minimum_cpts_per_payer" -> 3
      [] name = "stats_maximum_staleness_days" -> 30

\* default of ReadinessCheckSettings.claims_minimum_total
claims_minimum_total == 100

\* default of StatsSettings.payer_field
DefaultPayerField == "payerMCO"

\* what a stored threshold can be: left out, null, not positive, or positive
RawThresholdValues == {Absent, Null, Num(0), Num(1)}

\* a stored section: absent, null, or an embedded document
RawStatsSections ==
    {[state |-> "absent", payer_field |-> Absent],
     [state |-> "null", payer_field |-> Absent]}
    \cup {[state |-> "set", payer_field |-> p] :
            p \in {Absent, Null, Num(""), Num(DefaultPayerField)}}

\* the four thresholds AdditionalChargeReadinessCheck reads with getattr;
\* ReadinessCheckSettings declares none of them
DiagnosisThresholdNames ==
    {"diagnosis_cpt_min_combinations", "diagnosis_cpt_record_count_threshold",
     "diagnosis_diversity_threshold", "claims_with_diagnoses_threshold"}

AllAbsent == [n \in ThresholdNames \cup DiagnosisThresholdNames |-> Absent]

\* the stored readiness_settings sections: every threshold left to its
\* default, or one of them supplied
RawReadinessFields ==
    {AllAbsent}
    \cup {[AllAbsent EXCEPT ![n] = v] : n \in ThresholdNames, v \in RawThresholdValues}
    \cup {[AllAbsent EXCEPT ![n] = Num(1)] : n \in DiagnosisThresholdNames}

RawReadinessSections ==
    {[state |-> "absent", fields |-> AllAbsent],
     [state |-> "null", fields |-> AllAbsent]}
    \cup {[state |-> "set", fields |-> t] : t \in RawReadinessFields}

\* what the app_settings collection can hold
StoredDocuments ==
    [stats_settings : RawStatsSections, readiness_settings : RawReadinessSections]

\* pydantic raises a ValidationError: a null where a value is required, or
\* stats_coverage_threshold outside ge=0.0, le=1.0
ValidationFails(doc) ==
    \/ doc.stats_settings.state = "null"
    \/ doc.readiness_settings.state = "null"
    \/ doc.stats_settings.state = "set" /\ doc.stats_settings.payer_field = Null
    \/ /\ doc.readiness_settings.state = "set"
       /\ \E n \in ThresholdNames :
            LET f == doc.readiness_settings.fields[n]
            IN  \/ f = Null
                \/ /\ n = "stats_coverage_threshold"
                   /\ f.state = "set"
                   /\ (f.value < 0 \/ f.value > 100)

\* StatsSettings(**section): an absent payer_field takes its default
ParseStats(section) ==
    [payer_field |->
        IF section.state = "set" /\ section.payer_field.state = "set"
        THEN section.payer_field.value
        ELSE DefaultPayerField]

\* mutant of ParseReadiness: a supplied value is ignored
ParseReadinessDefaults(section) == [n \in ThresholdNames |-> DefaultThreshold(n)]

\* ReadinessCheckSettings(**section): an absent field takes its default
ParseReadiness(section) ==
    [n \in ThresholdNames |->
        IF section.state = "set" /\ section.fields[n].state = "set"
        THEN section.fields[n].value
        ELSE DefaultThreshold(n)]

\* MAppSettings(**doc): absent sections are built by their default_factory
MAppSettings(doc) ==
    [loaded |-> TRUE,
     stats_settings |-> ParseStats(doc.stats_settings),
     readiness_settings |-> ParseReadiness(doc.readiness_settings)]

\* self.app_settings = None
NoSettings == [loaded |-> FALSE]

\* the outcomes of loading the document: the query raises, there is no
\* document, or the stored document is parsed
FindOneOutcomes ==
    {[kind |-> "raises"], [kind |-> "none"]}
    \cup {[kind |-> "doc", doc |-> d] : d \in StoredDocuments}

\* ------------------------------------------------------------------------
\* CHECK 1 of both features: app settings validation
\* ------------------------------------------------------------------------

\* the query or the parse of the stored document raises
LoadRaises(found) ==
    \/ found.kind = "raises"
    \/ found.kind = "doc" /\ ValidationFails(found.doc)

\* self.app_settings after step 1
LoadedSettings(found) ==
    IF found.kind = "doc" /\ ~ValidationFails(found.doc)
    THEN MAppSettings(found.doc)
    ELSE NoSettings

\* hasattr(obj, name) and the attribute is truthy, for a section of the
\* settings object (a pydantic model is truthy)
HasSection(app_settings, name) == name \in DOMAIN app_settings

\* step 2: the sections that are reported missing
MissingSections(app_settings) ==
    {n \in {"stats_settings", "readiness_settings"} : ~HasSection(app_settings, n)}

\* not getattr(self.stats_settings, "payer_field", None)
PayerFieldMissing(stats_settings) ==
    \/ "payer_field" \notin DOMAIN stats_settings
    \/ stats_settings.payer_field = ""

\* steps 3 and 4 of the charge analysis validation: the issues found in the
\* readiness_settings thresholds
ThresholdIssues(readiness_settings) ==
    {<<n, "missing">> : n \in {m \in ThresholdNames : m \notin DOMAIN readiness_settings}}
    \cup
    {<<n, "invalid">> : n \in
        {m \in ThresholdNames \cap DOMAIN readiness_settings :
            \/ readiness_settings[m] <= 0
            \/ m = "stats_coverage_threshold" /\ readiness_settings[m] > 100}}

FailedCritical(feature_name, key, solution) ==
    create_check_result(feature_name, key, "failed", "critical", solution)

Passed(feature_name, key) ==
    create_check_result(feature_name, key, "passed", None, None)

\* the required settings whose absence the charge analysis validation
\* appends to validation_issues ("... not found", "... missing")
ChargeMissingSettings(found) ==
    LET settings == LoadedSettings(found)
    IN  IF LoadRaises(found) THEN {}
        ELSE IF found.kind = "none" THEN {"app_settings"}
        ELSE IF MissingSections(settings) # {} THEN MissingSections(settings)
        ELSE (IF PayerFieldMissing(settings.stats_settings) THEN {"payer_field"} ELSE {})
             \cup {i[1] : i \in {j \in ThresholdIssues(settings.readiness_settings) :
                                    j[2] = "missing"}}

\* the same for the additional charge validation, whose thresholds fall back
\* to built-in values
AdditionalMissingSettings(found) ==
    LET settings == LoadedSettings(found)
    IN  IF LoadRaises(found) THEN {}
        ELSE IF found.kind = "none" THEN {"app_settings"}
        ELSE IF MissingSections(settings) # {} THEN MissingSections(settings)
        ELSE IF PayerFieldMissing(settings.stats_settings) THEN {"payer_field"} ELSE {}

\* ChargeAnalysisReadinessCheck._check_app_settings_validation
ChargeAppSettingsValidation(found) ==
    LET fn == "charge_analysis"
        key == "app_settings_validation"
        settings == LoadedSettings(found)
    IN  IF LoadRaises(found) \/ found.kind = "none"
        THEN FailedCritical(fn, key, "Create app_settings document in MongoDB")
        ELSE IF MissingSections(settings) # {}
        THEN FailedCritical(fn, key, "Fix missing sections in app_settings")
        ELSE IF \/ PayerFieldMissing(settings.stats_settings)
                \/ ThresholdIssues(settings.readiness_settings) # {}
        THEN FailedCritical(fn, key, "Fix invalid values in app_settings")
        ELSE Passed(fn, key)

\* mutant of AdditionalAppSettingsValidation: a missing document passes
AdditionalAppSettingsValidationLax(found) ==
    Passed("additional_charge", "app_settings_validation")

\* AdditionalChargeReadinessCheck._check_app_settings_validation
AdditionalAppSettingsValidation(found) ==
    LET fn == "additional_charge"
        key == "app_settings_validation"
        settings == LoadedSettings(found)
    IN  IF LoadRaises(found) \/ found.kind = "none"
        THEN FailedCritical(fn, key,
                "Create app_settings document with required fields (stats_settings, readiness_settings)")
        ELSE IF MissingSections(settings) # {}
        THEN FailedCritical(fn, key, "Add missing sections to app_settings document")
        ELSE IF PayerFieldMissing(settings.stats_settings)
        THEN create_check_result(fn, key, "failed", "high",
                "Add missing fields to app_settings (payer_field, thresholds)")
        ELSE Passed(fn, key)

\* ------------------------------------------------------------------------
\* The later checks.  What the queries of a check observe in the data store
\* is an input of the check: obs.raises says that a query raised.
\* ------------------------------------------------------------------------

\* the percentages a query can observe, one in each band the checks tell apart
PercentLevels == {10, 40, 60}

\* ChargeAnalysisReadinessCheck._check_claims_data_analysis
ClaimsDataObservations ==
    [raises : BOOLEAN,
     total_claims : {0, claims_minimum_total - 1, claims_minimum_total},
     other_issue : BOOLEAN]

check_claims_data_analysis(obs) ==
    LET fn == "charge_analysis"
        key == "claims_data_analysis"
    IN  IF obs.raises
        THEN FailedCritical(fn, key,
                "Check logs for details; verify database connection and data structure")
        ELSE IF obs.total_claims = 0
        THEN FailedCritical(fn, key, "Import claims data into the collection")
        ELSE IF obs.total_claims < claims_minimum_total \/ obs.other_issue
        THEN create_check_result(fn, key, "failed",
                IF obs.total_claims < claims_minimum_total THEN "critical" ELSE "high",
                "Verify data import/population; check data quality; ensure charges and diagnoses are properly populated")
        ELSE Passed(fn, key)

\* ChargeAnalysisReadinessCheck._check_historical_stats_availability
HistoricalStatsObservations ==
    [raises : BOOLEAN, total_stats : {0, 1},
     coverage_percentage : PercentLevels, quality_percentage : PercentLevels,
     avg_low : BOOLEAN, payers_insufficient : BOOLEAN, stale : BOOLEAN]

HistoricalStatsIssues(readiness_settings, obs) ==
    (IF obs.coverage_percentage < readiness_settings["stats_coverage_threshold"]
     THEN {"coverage"} ELSE {})
    \cup (IF obs.quality_percentage < 50 THEN {"quality"} ELSE {})
    \cup (IF obs.avg_low THEN {"average"} ELSE {})
    \cup (IF obs.payers_insufficient THEN {"payers"} ELSE {})
    \cup (IF obs.stale THEN {"days old"} ELSE {})

check_historical_stats_availability(readiness_settings, obs) ==
    LET fn == "charge_analysis"
        key == "historical_stats_availability"
        issues == HistoricalStatsIssues(readiness_settings, obs)
        severity ==
            IF obs.total_stats = 0 THEN "critical"
            ELSE IF obs.coverage_percentage < 25 \/ obs.quality_percentage < 25
            THEN "critical"
            ELSE IF Cardinality(issues) = 1 /\ issues \subseteq {"payers", "days old"}
            THEN "medium"
            ELSE "high"
    IN  IF obs.raises
        THEN FailedCritical(fn, key,
                "Check logs for details; verify database connection and stats collection structure")
        ELSE IF obs.total_stats = 0
        THEN FailedCritical(fn, key,
                "Generate stats collection from claims data using generate_stats_collection. py script")
        ELSE IF issues # {}
        THEN create_check_result(fn, key, "failed", severity,
                "Consider regenerating stats or improving data quality; ensure all payers have sufficient historical data")
        ELSE Passed(fn, key)

\* the built-in thresholds of AdditionalChargeReadinessCheck.__init__
BuiltinThresholds ==
    [diagnosis_cpt_min_combinations |-> 10,
     diagnosis_cpt_record_count_threshold |-> 5,
     diagnosis_diversity_threshold |-> 5,
     claims_with_diagnoses_threshold |-> 10]

\* getattr(self.readiness_settings, name, default) for the four thresholds
LoadedThresholds(readiness_settings) ==
    [n \in DOMAIN BuiltinThresholds |->
        IF n \in DOMAIN readiness_settings
        THEN readiness_settings[n]
        ELSE BuiltinThresholds[n]]

\* AdditionalChargeReadinessCheck._check_claims_with_diagnoses
ClaimsWithDiagnosesObservations ==
    [raises : BOOLEAN, total_with_diagnoses : {9, 10},
     total_with_primary : {9, 10}, avg_low : BOOLEAN]

check_claims_with_diagnoses(threshold, obs) ==
    LET fn == "additional_charge"
        key == "claims_with_diagnoses"
    IN  IF obs.raises
        THEN FailedCritical(fn, key, "Check database connection and claim structure")
        ELSE IF \/ obs.total_with_diagnoses < threshold
                \/ obs.total_with_primary < threshold
                \/ obs.avg_low
        THEN create_check_result(fn, key, "failed",
                IF obs.total_with_diagnoses < threshold THEN "critical" ELSE "high",
                "Ensure at least {threshold} claims have diagnoses. Import more claims with diagnosis codes.")
        ELSE Passed(fn, key)

\* AdditionalChargeReadinessCheck._check_diagnosis_diversity
DiagnosisDiversityObservations ==
    [raises : BOOLEAN, unique_diagnoses : 2..5]

check_diagnosis_diversity(threshold, obs) ==
    LET fn == "additional_charge"
        key == "diagnosis_diversity"
    IN  IF obs.raises THEN FailedCritical(fn, key, "Check database connection and diagnoses field structure")
        ELSE IF obs.unique_diagnoses < threshold
        THEN create_check_result(fn, key, "failed",
                IF 10 * obs.unique_diagnoses < 5 * threshold THEN "critical"
                ELSE IF 10 * obs.unique_diagnoses < 8 * threshold THEN "high"
                ELSE "medium",
                "Ensure at least {threshold} unique diagnosis codes. Import more diverse claims.")
        ELSE Passed(fn, key)

\* AdditionalChargeReadinessCheck._check_diagnosis_cpt_patterns
DiagnosisCptObservations ==
    [raises : BOOLEAN, other_issue : BOOLEAN,
     combinations_with_threshold : {2, 5, 8}]

check_diagnosis_cpt_patterns(min_combinations, obs) ==
    LET fn == "additional_charge"
        key == "diagnosis_cpt_patterns"
        cwt == obs.combinations_with_threshold
    IN  IF obs.raises THEN FailedCritical(fn, key, "Check stats collection and database connection")
        ELSE IF obs.other_issue \/ 10 * cwt < 5 * min_combinations
        THEN create_check_result(fn, key, "failed",
                IF min_combinations > 0 /\ cwt * 100 >= 60 * min_combinations
                THEN "medium"
                ELSE IF min_combinations > 0 /\ cwt * 100 >= 30 * min_combinations
                THEN "high"
                ELSE "critical",
                "Generate diagnosis-CPT stats. Run stats collection script.")
        ELSE Passed(fn, key)

\* AdditionalChargeReadinessCheck._check_data_quality
DataQualityObservations ==
    [raises : BOOLEAN, total_sampled : {0, 1}, valid_pct : {50, 70, 90},
     paid_low : BOOLEAN]

check_data_quality(obs) ==
    LET fn == "additional_charge"
        key == "data_quality"
    IN  IF obs.raises THEN FailedCritical(fn, key, "Check stats collection and validation logic")
        ELSE IF obs.total_sampled = 0
        THEN FailedCritical(fn, key, "Generate diagnosis-CPT stats first")
        ELSE IF obs.valid_pct < 80 \/ obs.paid_low
        THEN create_check_result(fn, key, "failed",
                IF obs.valid_pct < 60 THEN "high" ELSE "medium",
                "Review stats generation process. Ensure proper data validation and filtering. Stats with paid = 0 will be filtered out by the feature.")
        ELSE Passed(fn, key)

\* ------------------------------------------------------------------------
\* The claims collection db["claims"]
\* ------------------------------------------------------------------------

\* how many claim documents the collection may hold
MaxClaims == 3

\* the largest part and total handed to calculate_percentage
MaxOperand == 3

\* amounts are kept in thousandths of a dollar
Dollars(n) == n * 1000

\* A field of a document is Absent, Null or Num(v), as for the app_settings
\* document; an array is Num of the sequence of its elements.

\* one entry of the charges array of a claim
Charge(amount, amountPaid, adjustmentAmount, unit, unitPrice, chargeRemittances, description, chargeAdjustments) ==
    [amount |-> amount, amountPaid |-> amountPaid,
     adjustmentAmount |-> adjustmentAmount, unit |-> unit, unitPrice |-> unitPrice,
     chargeRemittances |-> chargeRemittances, description |-> description,
     chargeAdjustments |-> chargeAdjustments]

\* the fields of a charge that the CPT analysis reads
ChargeCode(cptHcpcs, modifier) == [cptHcpcs |-> cptHcpcs, modifier |-> modifier]

\* a charge no check reports
CleanCharge ==
    Charge(Num(Dollars(100)), Num(Dollars(80)), Num(Dollars(20)), Num(1),
           Num(Dollars(100)), Num(<<"remittance">>), Num("office visit"),
           Num(<<"adjustment">>))
        @@ ChargeCode(Num("99213"), Num("25"))

\* paid above the amount, two units without a unit price, no remittance, no
\* text, no CPT code
OverpaidCharge ==
    Charge(Num(Dollars(100)), Num(Dollars(150)), Absent, Num(2),
           Absent, Num(<<>>), Num(""), Absent)
        @@ ChargeCode(Absent, Absent)

\* a charge of 0.00 without a description, its CPT code the empty string
ZeroCharge ==
    Charge(Num(0), Num(0), Num(0), Num(1),
           Null, Absent, Absent, Num(<<>>))
        @@ ChargeCode(Num(""), Num(""))

\* a negative amount with a negative adjustment and 200 units, its CPT code null
ReversalCharge ==
    Charge(Num(Dollars(0 - 50)), Num(0), Num(Dollars(0 - 50)), Num(200),
           Num(Dollars(1)), Num(<<"remittance">>), Num("reversal"),
           Num(<<"adjustment">>))
        @@ ChargeCode(Null, Null)

\* adjusted above its amount, the adjustment carrying no details
OverAdjustedCharge ==
    Charge(Num(Dollars(600)), Num(0), Num(Dollars(700)), Num(1),
           Num(Dollars(600)), Absent, Num("surgery"), Num(<<>>))
        @@ ChargeCode(Num("27447"), Absent)

\* an overpaid charge of 500.50, between the first two ranges of the charge
\* distribution
BetweenRangesCharge ==
    Charge(Num(Dollars(500) + 500), Num(Dollars(550) + 500), Absent, Num(2),
           Absent, Num(<<>>), Num(""), Absent)
        @@ ChargeCode(Absent, Absent)

\* a charge of 100.004
SubCentCharge ==
    Charge(Num(Dollars(100) + 4), Num(Dollars(100)), Num(0), Num(1),
           Num(Dollars(100) + 4), Num(<<"remittance">>), Num("office visit"),
           Num(<<>>))
        @@ ChargeCode(Num("99213"), Num(""))

\* one entry of the diagnoses array of a claim
Diagnosis(code, description, type, status, order, isPrimaryDiagnosis, occurrenceDate, presentOnAdmission) ==
    [code |-> code, description |-> description, type |-> type, status |-> status,
     order |-> order, isPrimaryDiagnosis |-> isPrimaryDiagnosis,
     occurrenceDate |-> occurrenceDate, presentOnAdmission |-> presentOnAdmission]

PrimaryDiagnosis ==
    Diagnosis(Num("E11.9"), Num("diabetes"), Num("ICD10"), Num("active"), Num("1"),
              Num(TRUE), Num("2024-01-01"), Num("Y"))

SecondaryDiagnosis ==
    Diagnosis(Num("I10"), Num("hypertension"), Num("ICD10"), Num("active"), Num("2"),
              Num(FALSE), Num("2024-01-01"), Num("N"))

\* every field empty, null or absent
BlankDiagnosis ==
    Diagnosis(Num(""), Absent, Null, Num(""), Absent, Absent, Null, Num(""))

\* first in order but not flagged primary
MisorderedDiagnosis ==
    Diagnosis(Num("I10"), Num("hypertension"), Num("ICD10"), Num("active"), Num("1"),
              Num(FALSE), Num("2024-01-01"), Num("N"))

\* a claim document
Claim(charges, diagnoses, claimAmount, claimAdjAmount, claimAdjustments) ==
    [charges |-> charges, diagnoses |-> diagnoses, claimAmount |-> claimAmount,
     claimAdjAmount |-> claimAdjAmount, claimAdjustments |-> claimAdjustments]

\* the fields of a claim document that claims_analysis reads besides the
\* amounts: the external claim id, the status, the amount paid and the
\* remittances of the claim
ClaimHeader(claimId, claimStatus, claimAmountPaid, chargeRemittances) ==
    [claimId |-> claimId, claimStatus |-> claimStatus,
     claimAmountPaid |-> claimAmountPaid, chargeRemittances |-> chargeRemittances]

\* the documents a loader may insert
ClaimSamples ==
    <<Claim(Num(<<CleanCharge>>), Num(<<PrimaryDiagnosis, SecondaryDiagnosis>>),
            Num(Dollars(100)), Num(Dollars(20)), Num(<<"adjustment">>))
        @@ ClaimHeader(Num("CLM-1"), Num("Closed"), Num(Dollars(80)),
                       Num(<<"remittance">>)),
      Claim(Num(<<OverpaidCharge, OverpaidCharge>>), Num(<<PrimaryDiagnosis>>),
            Num(Dollars(200)), Num(0), Absent)
        @@ ClaimHeader(Num("CLM-2"), Num("Denied"), Num(Dollars(300)), Absent),
      Claim(Num(<<ZeroCharge, ReversalCharge>>), Num(<<BlankDiagnosis, BlankDiagnosis>>),
            Num(Dollars(0 - 50)), Num(Dollars(0 - 50)), Num(<<"adjustment">>))
        @@ ClaimHeader(Num("CLM-3"), Num("Open"), Num(0), Num(<<>>)),
      \* claimed 600.006 against charges of 600.00
      Claim(Num(<<OverAdjustedCharge>>), Num(<<PrimaryDiagnosis, PrimaryDiagnosis>>),
            Num(Dollars(600) + 6), Num(Dollars(700)), Num(<<>>))
        @@ ClaimHeader(Num("CLM-4"), Num("Denied"), Num(0), Num(<<"remittance">>)),
      Claim(Absent, Absent, Num(Dollars(100)), Num(Dollars(60)), Absent)
        @@ ClaimHeader(Absent, Num("Sent to Payor"), Absent, Null),
      Claim(Num(<<>>), Null, Absent, Absent, Absent)
        @@ ClaimHeader(Null, Num("Denied"), Null, Absent),
      \* the external id of the first document again
      Claim(Num(<<OverAdjustedCharge, OverAdjustedCharge, CleanCharge>>),
            Num(<<MisorderedDiagnosis, SecondaryDiagnosis>>),
            Num(Dollars(1300)), Num(Dollars(1420)), Num(<<"adjustment">>))
        @@ ClaimHeader(Num("CLM-1"), Num("Open"), Num(Dollars(10)),
                       Num(<<"remittance">>)),
      Claim(Num(<<BetweenRangesCharge>>), Num(<<>>), Num(Dollars(500) + 500), Num(0),
            Absent)
        @@ ClaimHeader(Num("CLM-8"), Num("Denied"), Num(Dollars(550) + 500), Num(<<>>)),
      \* claimed 100.00 against charges of 100.004
      Claim(Num(<<SubCentCharge>>), Num(<<PrimaryDiagnosis>>),
            Num(Dollars(100)), Num(0), Absent)
        @@ ClaimHeader(Num("CLM-9"), Num("Closed"), Num(Dollars(100)),
                       Num(<<"remittance">>))>>

\* The collection is kept as the number of stored copies of each document;
\* the _id of a stored document is <<document, copy>>.
EmptyCollection == [s \in DOMAIN ClaimSamples |-> 0]

Documents(store) == UNION {{<<s, k>> : k \in 1..store[s]} : s \in DOMAIN store}

Doc(id) == ClaimSamples[id[1]]

\* ------------------------------------------------------------------------
\* Queries
\* ------------------------------------------------------------------------

\* {field: None} matches a null and an absent field
IsNull(f) == f = Absent \/ f = Null

\* {field: {"$gt": n}}, "$gte", "$lt", "$lte" match numbers only
QueryGt(f, n) == f.state = "set" /\ f.value > n
QueryGte(f, n) == f.state = "set" /\ f.value >= n
QueryLt(f, n) == f.state = "set" /\ f.value < n
QueryLte(f, n) == f.state = "set" /\ f.value <= n

\* {field: {"$size": n}}
QuerySize(f, n) == f.state = "set" /\ Len(f.value) = n

\* {"$ifNull": [field, n]}
IfNull(f, n) == IF IsNull(f) THEN n ELSE f.value

\* the BSON order of an absent field, a null and a number
BsonRank(f) == IF f = Absent THEN 0 ELSE IF f = Null THEN 1 ELSE 2

\* {"$expr": {"$gt": [a, b]}}
ExprGt(a, b) ==
    \/ BsonRank(a) > BsonRank(b)
    \/ BsonRank(a) = 2 /\ BsonRank(b) = 2 /\ a.value > b.value

\* the six ranges, in dollars; the last one has no upper end
ChargeRanges ==
    <<[range |-> "$0 - $500", min_val |-> 0, max_val |-> 500, open |-> FALSE],
      [range |-> "$501 - $1,000", min_val |-> 501, max_val |-> 1000, open |-> FALSE],
      [range |-> "$1,001 - $2,000", min_val |-> 1001, max_val |-> 2000, open |-> FALSE],
      [range |-> "$2,001 - $5,000", min_val |-> 2001, max_val |-> 5000, open |-> FALSE],
      [range |-> "$5,001 - $10,000", min_val |-> 5001, max_val |-> 10000, open |-> FALSE],
      [range |-> "$10,000+", min_val |-> 10001, max_val |-> 10001, open |-> TRUE]>>

\* a charge falls into range number i
InChargeRange(i, c) ==
    /\ QueryGte(c.amount, Dollars(ChargeRanges[i].min_val))
    /\ ChargeRanges[i].open \/ QueryLte(c.amount, Dollars(ChargeRanges[i].max_val))

\* the "$match" stages of get_highvalue_charges and get_lowvalue_charges
ChargeValueMatch(name, c) ==
    CASE name = "high" -> QueryGt(c.amount, Dollars(10000))
      [] name = "very_low" -> QueryGt(c.amount, 0) /\ QueryLt(c.amount, Dollars(1))
      [] name = "low" -> QueryGte(c.amount, Dollars(1)) /\ QueryLt(c.amount, Dollars(10))

\* the fields of ChargeValidation, in the order run_all evaluates them
ChargeChecks ==
    <<"paid_greater_than_charge", "paid_plus_adjustment_greater_than_charge",
      "zero_charges", "negative_charges", "missing_unit_prices",
      "charge_remittance_details_missing", "charges_with_extreme_units",
      "charges_with_empty_description">>

\* the "$match" stage of each check_* pipeline
ChargeIssueMatch(name, c) ==
    CASE name = "paid_greater_than_charge" -> ExprGt(c.amountPaid, c.amount)
      [] name = "paid_plus_adjustment_greater_than_charge" ->
            ExprGt(Num(IfNull(c.amountPaid, 0) + IfNull(c.adjustmentAmount, 0)), c.amount)
      [] name = "zero_charges" -> c.amount = Num(0)
      [] name = "negative_charges" -> QueryLt(c.amount, 0)
      [] name = "missing_unit_prices" -> QueryGt(c.unit, 1) /\ IsNull(c.unitPrice)
      [] name = "charge_remittance_details_missing" ->
            /\ QueryGt(c.amountPaid, 0)
            /\ QuerySize(c.chargeRemittances, 0) \/ c.chargeRemittances = Absent
      [] name = "charges_with_extreme_units" -> QueryGt(c.unit, 100)
      [] name = "charges_with_empty_description" ->
            c.description = Absent \/ c.description = Num("")

\* the field a missing_* check looks at
DiagnosisField(name) ==
    CASE name = "missing_description" -> "description"
      [] name = "missing_code" -> "code"
      [] name = "missing_type" -> "type"
      [] name = "missing_status" -> "status"
      [] name = "missing_order" -> "order"
      [] name = "missing_occurrence_date" -> "occurrenceDate"
      [] name = "missing_present_on_admission" -> "presentOnAdmission"

\* "$or": [{field: {"$exists": False}}, {field: None}, {field: ""}]
FieldMissing(f) == IsNull(f) \/ f = Num("")

\* {"isPrimaryDiagnosis": True}
IsPrimary(d) == d.isPrimaryDiagnosis = Num(TRUE)

\* {"order": {"$exists": True, "$ne": None, "$ne": ""}}: the dict literal keeps
\* its last "$ne" only, so a null order passes
HasOrder(d) == d.order # Absent /\ d.order # Num("")

\* the "$match" stage on the unwound diagnosis; the filter of the unique
\* codes keeps its last "$ne" only, too
DiagnosisItemMatch(name, d) ==
    CASE name \in {"multiple_primary", "primary"} -> IsPrimary(d)
      [] name = "coded" -> d.code # Absent /\ d.code # Num("")
      [] name = "order_mismatch" -> d.order = Num("1") /\ ~IsPrimary(d)
      [] name = "duplicate_order" -> HasOrder(d)
      [] OTHER -> FieldMissing(d[DiagnosisField(name)])

\* the "$match" stages on the claim: any claim, a claim without diagnoses, a
\* claim none of whose diagnoses is primary
ClaimMatch(name, c) ==
    CASE name = "any" -> TRUE
      [] name = "missing_diagnosis" -> QuerySize(c.diagnoses, 0) \/ IsNull(c.diagnoses)
      [] name = "missing_primary_diagnosis" ->
            ~(/\ c.diagnoses.state = "set"
              /\ \E j \in DOMAIN c.diagnoses.value : IsPrimary(c.diagnoses.value[j]))

\* the DataCount fields of Adjustment computed on the claim
AdjustmentClaimChecks ==
    {"negative_adjustments", "adjustment_greater_than_claim",
     "adjustment_exceeds_50_percent", "missing_adjustment_details"}

\* the DataCount fields of Adjustment computed on the unwound charges
AdjustmentChargeChecks ==
    {"charge_negative_adjustments", "charge_adjustment_exceeds_amount",
     "charges_missing_adjustment_details"}

\* the query of each claim-level count
AdjustmentClaimMatch(name, c) ==
    CASE name = "claims_with_adjustments" -> QueryGt(c.claimAdjAmount, 0)
      [] name = "negative_adjustments" -> QueryLt(c.claimAdjAmount, 0)
      [] name = "adjustment_greater_than_claim" -> ExprGt(c.claimAdjAmount, c.claimAmount)
      [] name = "adjustment_exceeds_50_percent" ->
            /\ QueryGt(c.claimAdjAmount, 0)
            /\ IsNull(c.claimAmount) \/ 2 * c.claimAdjAmount.value > c.claimAmount.value
      [] name = "missing_adjustment_details" ->
            /\ QueryGt(c.claimAdjAmount, 0)
            /\ QuerySize(c.claimAdjustments, 0) \/ c.claimAdjustments = Absent

\* the "$match" stage of each charge-level pipeline
AdjustmentChargeMatch(name, c) ==
    CASE name = "charge_negative_adjustments" -> QueryLt(c.adjustmentAmount, 0)
      [] name = "charge_adjustment_exceeds_amount" -> ExprGt(c.adjustmentAmount, c.amount)
      [] name = "charges_missing_adjustment_details" ->
            /\ QueryGt(c.adjustmentAmount, 0)
            /\ QuerySize(c.chargeAdjustments, 0) \/ c.chargeAdjustments = Absent

\* a query document: one of the filters above
Query(kind, name) == [kind |-> kind, name |-> name]

\* the document or array element passes the filter
Satisfies(query, doc) ==
    CASE query.kind = "claim" -> ClaimMatch(query.name, doc)
      [] query.kind = "charge_range" -> InChargeRange(query.name, doc)
      [] query.kind = "charge_value" -> ChargeValueMatch(query.name, doc)
      [] query.kind = "charge_issue" -> ChargeIssueMatch(query.name, doc)
      [] query.kind = "diagnosis" -> DiagnosisItemMatch(query.name, doc)
      [] query.kind = "adjustment_claim" -> AdjustmentClaimMatch(query.name, doc)
      [] query.kind = "adjustment_charge" -> AdjustmentChargeMatch(query.name, doc)

\* ------------------------------------------------------------------------
\* Pipeline stages
\* ------------------------------------------------------------------------

\* collection.count_documents(query)
count_documents(store, query) ==
    Cardinality({id \in Documents(store) : Satisfies(query, Doc(id))})

\* {"$unwind": "$field"}: one row per element of the array, none for a
\* document whose field is absent, null or empty
Unwind(store, field) ==
    UNION {{[_id |-> id, pos |-> j, item |-> Doc(id)[field].value[j]] :
                j \in DOMAIN Doc(id)[field].value} :
           id \in {d \in Documents(store) : Doc(d)[field].state = "set"}}

\* {"$match": query} on the unwound element
Match(rows, query) == {r \in rows : Satisfies(query, r.item)}

\* mutant of GroupById: the rows are counted as they are
GroupByRow(rows) == rows

\* {"$group": {"_id": "$_id"}}
GroupById(rows) == {r._id : r \in rows}

\* {"$count": "total"} followed by to_list: no document for an empty input
CountStage(input) ==
    IF input = {} THEN <<>> ELSE <<[total |-> Cardinality(input)]>>

\* result[0]["total"] if result else 0
TotalOf(result) == IF result # <<>> THEN result[1].total ELSE 0

\* the "_id" of a "$group" stage: the claim, or the claim and the order
RowKey(key, r) == IF key = "claim" THEN r._id ELSE <<r._id, r.item.order>>

\* "$group" with a count, then {"$match": {"count": {"$gt": 1}}}
GroupsAboveOne(rows, key) ==
    {RowKey(key, r) : r \in {x \in rows :
        Cardinality({y \in rows : RowKey(key, y) = RowKey(key, x)}) > 1}}

\* ------------------------------------------------------------------------
\* Percentages
\* ------------------------------------------------------------------------

RECURSIVE Pow10(_)
Pow10(n) == IF n = 0 THEN 1 ELSE 10 * Pow10(n - 1)

\* a float with a fixed number of decimals: units / 10^decimals
Fixed(units, decimals) == [units |-> units, decimals |-> decimals]

\* the literal 0.0
ZeroFloat == Fixed(0, 1)

\* mutant of round: the digits beyond the precision are cut off
round_truncating(num, den, decimals) ==
    Fixed((num * Pow10(decimals)) \div den, decimals)

\* round(num / den, decimals), ties going to the even digit
round(num, den, decimals) ==
    LET scaled == num * Pow10(decimals)
        q == scaled \div den
        r == scaled % den
    IN  Fixed(IF 2 * r > den \/ (2 * r = den /\ q % 2 = 1) THEN q + 1 ELSE q,
              decimals)

DataCount(count, percentage) == [count |-> count, percentage |-> percentage]

\* shared/utils.py
calculate_percentage(part, total, decimals) ==
    IF total = 0 THEN ZeroFloat
    ELSE round(part * 100, total, decimals)

\* ------------------------------------------------------------------------
\* ChargesAnalyzer (chargespattern_analysis.py)
\* ------------------------------------------------------------------------

ChargesAnalyzer_run_pipeline(result, total_charges) ==
    LET count == TotalOf(result)
        percentage == IF total_charges > 0
                      THEN round(count * 100, total_charges, 4)
                      ELSE ZeroFloat
    IN  DataCount(count, percentage)

get_total_charges_count(store) ==
    LET result == CountStage(Unwind(store, "charges"))
    IN  TotalOf(result)

\* "$sum" of the amounts of a set of rows
RECURSIVE SumAmounts(_)
SumAmounts(rows) ==
    IF rows = {} THEN 0
    ELSE LET r == CHOOSE x \in rows : TRUE
         IN  r.item.amount.value + SumAmounts(rows \ {r})

\* None without charges, else the dict of the single group
get_charge_statistics(store) ==
    LET rows == Unwind(store, "charges")
        priced == {r \in rows : r.item.amount.state = "set"}
        amounts == {r.item.amount.value : r \in priced}
    IN  IF rows = {} THEN Null
        ELSE Num([total_charges |-> SumAmounts(priced),
                  avg_charge |-> IF priced = {} THEN Null
                                 ELSE Num(Rational(SumAmounts(priced), Cardinality(priced))),
                  min_charge |-> IF priced = {} THEN Null
                                 ELSE Num(CHOOSE m \in amounts : \A a \in amounts : m <= a),
                  max_charge |-> IF priced = {} THEN Null
                                 ELSE Num(CHOOSE m \in amounts : \A a \in amounts : m >= a),
                  count |-> Cardinality(rows)])

get_charge_ranges(store, total_charges) ==
    IF total_charges = 0 THEN <<>>
    ELSE [i \in DOMAIN ChargeRanges |->
            LET b == ChargeRanges[i]
                rows == Match(Unwind(store, "charges"), Query("charge_range", i))
                count == TotalOf(CountStage(rows))
            IN  [range |-> b.range, count |-> count,
                 percentage |-> round(count * 100, total_charges, 2)]]

\* the count of the charges above 10,000; the listing of the ten largest
\* is left out
get_highvalue_charges(store) ==
    LET rows == Match(Unwind(store, "charges"), Query("charge_value", "high"))
    IN  [count |-> TotalOf(CountStage(rows))]

get_lowvalue_charges(store, total_charges) ==
    LET very_low == Match(Unwind(store, "charges"), Query("charge_value", "very_low"))
        low == Match(Unwind(store, "charges"), Query("charge_value", "low"))
        very_low_count == TotalOf(CountStage(very_low))
        low_count == TotalOf(CountStage(low))
    IN  [very_low_count |-> very_low_count,
         very_low_percentage |-> IF total_charges > 0
                                 THEN round(very_low_count * 100, total_charges, 2)
                                 ELSE round(0, 1, 2),
         low_count |-> low_count,
         low_percentage |-> IF total_charges > 0
                            THEN round(low_count * 100, total_charges, 2)
                            ELSE round(0, 1, 2)]

\* check_*: unwind, match, group by claim, count
ChargeCheck(store, name, total_charges) ==
    LET rows == Match(Unwind(store, "charges"), Query("charge_issue", name))
        result == CountStage(GroupById(rows))
    IN  ChargesAnalyzer_run_pipeline(result, total_charges)

\* the awaits of run_all, in order
ChargesQueries ==
    <<"count_documents", "get_total_charges_count", "get_charge_statistics",
      "get_charge_ranges", "get_highvalue_charges", "get_lowvalue_charges">>
    \o ChargeChecks

\* the first k elements of a sequence, as a set
Prefix(seq, k) == {seq[i] : i \in 1..k}

\* ChargesAnalyzer.run_all when its query number fail raises (0: none does).
\* The call raises too when Charges(statistics=None) is rejected by the model.
run_all(store, fail) ==
    LET total_claims == IF fail = 1 THEN 0 ELSE count_documents(store, Query("claim", "any"))
        total_charges == IF fail \in {1, 2} THEN 0 ELSE get_total_charges_count(store)
        statistics == get_charge_statistics(store)
        evaluated == IF fail = 0 THEN Prefix(ChargeChecks, Len(ChargeChecks))
                     ELSE IF fail > 6 THEN Prefix(ChargeChecks, fail - 7)
                     ELSE {}
        issues == [name \in evaluated |-> ChargeCheck(store, name, total_charges)]
        state == [kind |-> "charges", total_claims |-> total_claims,
                  total_charges |-> total_charges, produced |-> issues]
    IN  IF fail # 0
        THEN state @@ [outcome |-> "raised", failed |-> ChargesQueries[fail]]
        ELSE IF statistics = Null
        THEN state @@ [outcome |-> "raised", failed |-> "Charges"]
        ELSE state @@ [outcome |-> "returned", failed |-> None,
                       report |-> [statistics |-> statistics.value,
                                   ranges |-> get_charge_ranges(store, total_charges),
                                   high_value |-> get_highvalue_charges(store),
                                   low_value |-> get_lowvalue_charges(store, total_charges),
                                   issues |-> issues]]

\* ------------------------------------------------------------------------
\* DiagnosisAnalyzer (diagnosis_analysis.py)
\* ------------------------------------------------------------------------

DiagnosisAnalyzer_run_pipeline(result, total_claims) ==
    LET count == TotalOf(result)
        percentage == IF total_claims > 0
                      THEN round(count * 100, total_claims, 4)
                      ELSE ZeroFloat
    IN  DataCount(count, percentage)

\* the fields of DiagnosisValidation, in the order analyze evaluates them
DiagnosisChecks ==
    <<"missing_diagnosis", "missing_primary_diagnosis", "missing_description",
      "missing_code", "multiple_primary", "missing_type", "missing_status",
      "order_mismatch", "missing_order", "duplicate_order",
      "missing_occurrence_date", "missing_present_on_admission">>

\* the checks that unwind the diagnoses
DiagnosisItemChecks ==
    {"missing_description", "missing_code", "multiple_primary", "missing_type",
     "missing_status", "order_mismatch", "missing_order", "duplicate_order",
     "missing_occurrence_date", "missing_present_on_admission"}

\* the claims a check_* pipeline of the analyzer counts
DiagnosisCheckClaims(store, name) ==
    LET rows == Match(Unwind(store, "diagnoses"), Query("diagnosis", name))
    IN  CASE name \in {"missing_diagnosis", "missing_primary_diagnosis"} ->
                {id \in Documents(store) : Satisfies(Query("claim", name), Doc(id))}
          [] name = "multiple_primary" -> GroupsAboveOne(rows, "claim")
          [] name = "duplicate_order" ->
                {g[1] : g \in GroupsAboveOne(rows, "claim_and_order")}
          [] OTHER -> GroupById(rows)

DiagnosisCheck(store, name, total_claims) ==
    DiagnosisAnalyzer_run_pipeline(CountStage(DiagnosisCheckClaims(store, name)),
                                   total_claims)

\* a null and an absent code fall into the same group
GroupKey(f) == IF f = Absent THEN Null ELSE f

unique_icd_10_codes(store) ==
    LET rows == Match(Unwind(store, "diagnoses"), Query("diagnosis", "coded"))
    IN  TotalOf(CountStage({GroupKey(r.item.code) : r \in rows}))

unique_icd_10_primary_codes(store) ==
    LET rows == Match(Unwind(store, "diagnoses"), Query("diagnosis", "primary"))
    IN  TotalOf(CountStage({GroupKey(r.item.code) : r \in rows}))

\* the awaits of analyze, in order
DiagnosisQueries ==
    <<"count_documents", "unique_icd_10_codes", "unique_icd_10_primary_codes">>
    \o DiagnosisChecks

\* DiagnosisAnalyzer.analyze when its query number fail raises (0: none does)
analyze(store, fail) ==
    LET total_claims == IF fail = 1 THEN 0 ELSE count_documents(store, Query("claim", "any"))
        evaluated == IF fail = 0 THEN Prefix(DiagnosisChecks, Len(DiagnosisChecks))
                     ELSE IF fail > 3 THEN Prefix(DiagnosisChecks, fail - 4)
                     ELSE {}
        Issues == [name \in evaluated |-> DiagnosisCheck(store, name, total_claims)]
        state == [kind |-> "diagnosis", total_claims |-> total_claims,
                  produced |-> Issues]
    IN  IF fail # 0
        THEN state @@ [outcome |-> "raised", failed |-> DiagnosisQueries[fail]]
        ELSE state @@ [outcome |-> "returned", failed |-> None,
                       report |-> [unique_icd_10_codes |-> unique_icd_10_codes(store),
                                   unique_icd_10_primary_codes |->
                                        unique_icd_10_primary_codes(store),
                                   Issues |-> Issues]]

\* ------------------------------------------------------------------------
\* adjustment_analysis (claimadjustments_analysis.py)
\* ------------------------------------------------------------------------

AdjustmentCount(store, name) ==
    IF name \in AdjustmentChargeChecks
    THEN LET rows == Match(Unwind(store, "charges"), Query("adjustment_charge", name))
         IN  TotalOf(CountStage(GroupById(rows)))
    ELSE count_documents(store, Query("adjustment_claim", name))

\* DataCount(count=count, percentage=round(pct, 2))
AdjustmentDataCount(count, total_claims) ==
    DataCount(count, IF total_claims > 0
                     THEN round(count * 100, total_claims, 2)
                     ELSE round(0, 1, 2))

\* the awaits of adjustment_analysis, in order
AdjustmentQueries ==
    <<"count_documents", "claims_with_adjustments", "negative_adjustments",
      "adjustment_greater_than_claim", "adjustment_exceeds_50_percent",
      "missing_adjustment_details", "charge_negative_adjustments",
      "charge_adjustment_exceeds_amount", "charges_missing_adjustment_details">>

\* adjustment_analysis when its query number fail raises (0: none does); the
\* DataCounts are only built for the returned Adjustment
adjustment_analysis(store, fail) ==
    LET total_claims == count_documents(store, Query("claim", "any"))
        checks == AdjustmentClaimChecks \cup AdjustmentChargeChecks
    IN  IF fail # 0
        THEN [kind |-> "adjustment", outcome |-> "raised",
              failed |-> AdjustmentQueries[fail]]
        ELSE [kind |-> "adjustment", outcome |-> "returned", failed |-> None,
              report |-> [total_claims |-> total_claims,
                          claims_with_adjustments |->
                               AdjustmentCount(store, "claims_with_adjustments"),
                          issues |-> [name \in checks |->
                               AdjustmentDataCount(AdjustmentCount(store, name),
                                                   total_claims)]]]

\* ------------------------------------------------------------------------
\* claims_analysis (claim_analysis.py)
\* ------------------------------------------------------------------------

\* {"claimStatus": status}
HasStatus(c, status) == c.claimStatus = Num(status)

\* mutant of DeniedWithPayment: a payment of 0 qualifies
DeniedWithAnyPayment(c) ==
    HasStatus(c, "Denied") /\ QueryGte(c.claimAmountPaid, 0)

\* {"claimStatus": "Denied", "claimAmountPaid": {"$gt": 0}}
DeniedWithPayment(c) ==
    HasStatus(c, "Denied") /\ QueryGt(c.claimAmountPaid, 0)

\* the filters of the count_documents and find calls of claims_analysis
ClaimsFindMatch(name, c) ==
    CASE name = "count_documents" -> TRUE
      [] name = "open_count" -> HasStatus(c, "Open")
      [] name = "sent_to_payer_count" -> HasStatus(c, "Sent to Payor")
      [] name = "closed_count" -> HasStatus(c, "Closed")
      [] name = "denied_count" -> HasStatus(c, "Denied")
      [] name = "pending_amount" -> HasStatus(c, "Open") \/ HasStatus(c, "Sent to Payor")
      [] name = "denied_amount" -> HasStatus(c, "Denied")
      [] name = "denied_with_payment" -> DeniedWithPayment(c)
      [] name = "denied_without_remittances" ->
            /\ HasStatus(c, "Denied")
            /\ QuerySize(c.chargeRemittances, 0) \/ IsNull(c.chargeRemittances)
      [] name = "denied_with_overpayment" ->
            HasStatus(c, "Denied") /\ ExprGt(c.claimAmountPaid, c.claimAmount)
      [] name = "open_with_payment" ->
            HasStatus(c, "Open") /\ QueryGt(c.claimAmountPaid, 0)
      [] name = "paidamount_greater_than_claimamount" ->
            ExprGt(c.claimAmountPaid, c.claimAmount)
      [] name = "adjamount_greater_than_claimamount" ->
            ExprGt(c.claimAdjAmount, c.claimAmount)
      [] name = "paid_plus_adjustment_exceeds_claim" ->
            ExprGt(Num(IfNull(c.claimAmountPaid, 0) + IfNull(c.claimAdjAmount, 0)),
                   c.claimAmount)

\* the documents a find() of claims_analysis returns
ClaimsFind(store, name) ==
    {id \in Documents(store) : ClaimsFindMatch(name, Doc(id))}

\* "$group" with {"$sum": "$claimAmount"} over the matched claims
SumClaimAmount(store, name) ==
    LET matched == {id \in ClaimsFind(store, name) : Doc(id).claimAmount.state = "set"}
        amounts == [id \in matched |-> Doc(id).claimAmount.value]
        Total[S \in SUBSET matched] ==
            IF S = {} THEN 0
            ELSE LET x == CHOOSE y \in S : TRUE
                 IN  amounts[x] + Total[S \ {x}]
    IN  Total[matched]

\* claim.get("claimAmountPaid", 0) - claim.get("claimAmount", 0) over the
\* denied claims with overpayment: the subtraction raises on a stored None
OverpaymentSumRaises(store) ==
    \E id \in ClaimsFind(store, "denied_with_overpayment") :
        Doc(id).claimAmountPaid = Null \/ Doc(id).claimAmount = Null

\* mutant of RoundCents: the amount is compared as stored
RoundCentsNot(f) == IF IsNull(f) THEN Null ELSE Num(f.value)

\* {"$round": [amount, 2]}: null for a null or missing amount, else the
\* nearest cent, a tie going to the even cent
RoundCents(f) ==
    IF IsNull(f) THEN Null
    ELSE Num(Dollars(round(f.value, Dollars(1), 2).units) \div 100)

\* {"$sum": "$charges.amount"} of one group of the unwound charges
TotalCharges(rows, id) ==
    SumAmounts({r \in rows : r._id = id /\ r.item.amount.state = "set"})

\* the claimamount_sum_mismatch pipeline before its "$count": the groups
\* whose rounded claimAmount is not the rounded sum of the charges
SumMismatchGroups(store) ==
    LET rows == Unwind(store, "charges")
    IN  {id \in GroupById(rows) :
            RoundCents(Doc(id).claimAmount) # RoundCents(Num(TotalCharges(rows, id)))}

\* the "_id" of the "$group" by "$claimId": a missing id groups with null
ClaimIdKey(c) == IF IsNull(c.claimId) THEN Null ELSE c.claimId

\* the members of the group of a claimId
ClaimIdGroup(store, key) ==
    {id \in Documents(store) : ClaimIdKey(Doc(id)) = key}

\* the duplicate_claims_pipeline: the groups with count > 1 are kept and
\* "$group" with {"$sum": "$count"} adds up their counts; one document, or
\* none when no group is left
duplicate_claims_pipeline(store) ==
    LET keys == {ClaimIdKey(Doc(id)) : id \in Documents(store)}
        kept == {k \in keys : Cardinality(ClaimIdGroup(store, k)) > 1}
    IN  IF kept = {} THEN <<>>
        ELSE <<[total_duplicate_claims |->
                   Cardinality(UNION {ClaimIdGroup(store, k) : k \in kept})]>>

\* mutant of ClaimsDataCount: the count is not divided by the number of claims
ClaimsDataCountUndivided(count, total_claims) ==
    DataCount(count, round(count * 100, 1, 2))

\* DataCount(count=count, percentage=round(pct, 2))
ClaimsDataCount(count, total_claims) ==
    DataCount(count, IF total_claims > 0
                     THEN round(count * 100, total_claims, 2)
                     ELSE round(0, 1, 2))

\* the DataCount fields of ClaimIssues
ClaimIssueChecks ==
    {"denied_with_payment", "denied_without_remittances", "denied_with_overpayment",
     "open_with_payment", "paidamount_greater_than_claimamount",
     "adjamount_greater_than_claimamount", "claim_sum_mismatch", "duplicate_claims",
     "paid_plus_adjustment_exceeds_claim"}

\* the awaits of claims_analysis, in order
ClaimsQueries ==
    <<"count_documents", "open_count", "sent_to_payer_count", "closed_count",
      "denied_count", "pending_amount", "denied_amount", "denied_with_payment",
      "denied_without_remittances", "denied_with_overpayment", "open_with_payment",
      "paidamount_greater_than_claimamount", "adjamount_greater_than_claimamount",
      "claim_sum_mismatch", "duplicate_claims", "paid_plus_adjustment_exceeds_claim">>

\* the count of one issue: the checks of the denied claims are skipped when
\* no claim is denied, the check of the open claims when none is open
ClaimIssueCount(store, name) ==
    CASE name \in {"denied_with_payment", "denied_without_remittances",
                   "denied_with_overpayment"} ->
            IF ClaimsFind(store, "denied_count") = {} THEN 0
            ELSE Cardinality(ClaimsFind(store, name))
      [] name = "open_with_payment" ->
            IF ClaimsFind(store, "open_count") = {} THEN 0
            ELSE Cardinality(ClaimsFind(store, name))
      [] name = "claim_sum_mismatch" ->
            LET result == CountStage(SumMismatchGroups(store))
            IN  TotalOf(result)
      [] name = "duplicate_claims" ->
            LET result == duplicate_claims_pipeline(store)
            IN  IF result # <<>> THEN result[1].total_duplicate_claims ELSE 0
      [] OTHER -> Cardinality(ClaimsFind(store, name))

\* claims_analysis issues its query number fail on this collection
ClaimsQueryIssued(store, fail) ==
    /\ fail \in 8..10 => ClaimsFind(store, "denied_count") # {}
    /\ fail = 11 => ClaimsFind(store, "open_count") # {}
    /\ fail > 10 => ~OverpaymentSumRaises(store)

\* claims_analysis when its query number fail raises (0: none does); nothing
\* is caught, and the report is only built at the end
claims_analysis(store, fail) ==
    LET total_claims == Cardinality(ClaimsFind(store, "count_documents"))
        open_count == Cardinality(ClaimsFind(store, "open_count"))
        sent_to_payer_count == Cardinality(ClaimsFind(store, "sent_to_payer_count"))
        denied_count == Cardinality(ClaimsFind(store, "denied_count"))
    IN  IF fail # 0
        THEN [kind |-> "claims", outcome |-> "raised", failed |-> ClaimsQueries[fail]]
        ELSE IF denied_count > 0 /\ OverpaymentSumRaises(store)
        THEN [kind |-> "claims", outcome |-> "raised", failed |-> "total_overpayment"]
        ELSE [kind |-> "claims", outcome |-> "returned", failed |-> None,
              report |-> [total_claims |-> total_claims,
                          open_count |-> open_count,
                          sent_to_payer_count |-> sent_to_payer_count,
                          closed_count |-> Cardinality(ClaimsFind(store, "closed_count")),
                          denied_count |-> denied_count,
                          pending_count |-> open_count + sent_to_payer_count,
                          pending_amount |-> SumClaimAmount(store, "pending_amount"),
                          denial_rate |-> IF total_claims > 0
                                          THEN Rational(denied_count * 100, total_claims)
                                          ELSE Zero,
                          denied_amount |-> SumClaimAmount(store, "denied_amount"),
                          issues |-> [name \in ClaimIssueChecks |->
                               ClaimsDataCount(ClaimIssueCount(store, name),
                                               total_claims)]]]

\* ------------------------------------------------------------------------
\* charges_analyzer (data_quality/chargespattern_analysis.py)
\* ------------------------------------------------------------------------

\* the dict returned when the "$group" yields no document
NoChargeData ==
    [total_charges |-> 0, avg_charge |-> Zero, min_charge |-> 0, max_charge |-> 0,
     count |-> 0, status |-> "no_data"]

\* charges_analyzer.charges_statitics: "stats.get(...) or 0" turns a None of
\* the group into 0
charges_statitics(store) ==
    LET stats == get_charge_statistics(store)
    IN  IF stats = Null THEN NoChargeData
        ELSE [total_charges |-> stats.value.total_charges,
              avg_charge |-> IF stats.value.avg_charge = Null THEN Zero
                             ELSE stats.value.avg_charge.value,
              min_charge |-> IfNull(stats.value.min_charge, 0),
              max_charge |-> IfNull(stats.value.max_charge, 0),
              count |-> stats.value.count,
              status |-> "completed"]

\* charges_analyzer.charge_ranges: a dict in both cases
charge_ranges(store) ==
    LET total_count == get_total_charges_count(store)
    IN  IF total_count = 0 THEN [status |-> "no_data"]
        ELSE [total_charges |-> total_count,
              ranges |-> get_charge_ranges(store, total_count),
              status |-> "completed"]

\* charges_analyzer.highvalue_charges; the ten largest are listed only when a
\* charge is above 10,000
highvalue_charges(store) ==
    [high_value_count |-> get_highvalue_charges(store).count, status |-> "completed"]

\* {"charges.amount": 0} and {"charges.amount": {"$lt": 0}}
ZeroNegativeMatch(name, c) ==
    IF name = "zero" THEN c.amount = Num(0) ELSE QueryLt(c.amount, 0)

\* round(percentage, 2) of a count of charges
LegacyPercentage(count, total_charges) ==
    IF total_charges > 0 THEN round(count * 100, total_charges, 2)
    ELSE round(0, 1, 2)

\* charges_analyzer.zero_negative_charges
zero_negative_charges(store) ==
    LET rows == Unwind(store, "charges")
        zero_count == TotalOf(CountStage({r \in rows : ZeroNegativeMatch("zero", r.item)}))
        negative_count ==
            TotalOf(CountStage({r \in rows : ZeroNegativeMatch("negative", r.item)}))
        total_charges == TotalOf(CountStage(rows))
    IN  [zero_count |-> zero_count,
         zero_percentage |-> LegacyPercentage(zero_count, total_charges),
         negative_count |-> negative_count,
         negative_percentage |-> LegacyPercentage(negative_count, total_charges),
         total_charges |-> total_charges, status |-> "completed"]

\* charges_analyzer.lowvalue_charges
lowvalue_charges(store) ==
    get_lowvalue_charges(store, get_total_charges_count(store))
        @@ [total_charges |-> get_total_charges_count(store), status |-> "completed"]

\* the analyses of run_analysis, in order
LegacyAnalyses == <<"statistics", "ranges", "high_value", "zero_negative", "low_value">>

\* charges_analyzer.run_analysis when a query of its analysis number fail
\* raises (0: none does); main() logs the exception and returns nothing
run_analysis(store, fail) ==
    IF fail # 0
    THEN [kind |-> "charges_analyzer", outcome |-> "raised",
          failed |-> LegacyAnalyses[fail]]
    ELSE [kind |-> "charges_analyzer", outcome |-> "returned", failed |-> None,
          results |-> [statistics |-> charges_statitics(store),
                       ranges |-> charge_ranges(store),
                       high_value |-> highvalue_charges(store),
                       zero_negative |-> zero_negative_charges(store),
                       low_value |-> lowvalue_charges(store)]]

\* ------------------------------------------------------------------------
\* CPTCodeAnalyzer (cpt_code_analysis.py)
\* ------------------------------------------------------------------------

\* how many codes a list of usage counts may hold, and the largest count
MaxCodes == 3
MaxUsage == 3

\* {"charges.cptHcpcs": {"$exists": True, "$ne": None, "$ne": ""}}: the dict
\* literal keeps the last "$ne" only, so a null code passes
HasCptCode(c) == c.cptHcpcs # Absent /\ c.cptHcpcs # Num("")

\* "$group" by "$charges.cptHcpcs" with a count: the set of the groups
CptGroups(store) ==
    LET rows == {r \in Unwind(store, "charges") : HasCptCode(r.item)}
    IN  {[_id |-> code, count |-> Cardinality({r \in rows : r.item.cptHcpcs = code})] :
            code \in {r.item.cptHcpcs : r \in rows}}

\* {"$sort": {"count": -1}}: the lists the stage may return; the order of
\* groups with the same count is not determined
SortedByCount(groups) ==
    {s \in [1..Cardinality(groups) -> groups] :
        /\ \A i, j \in DOMAIN s : i < j => s[i] # s[j] /\ s[i].count >= s[j].count}

\* sum(item["count"] for item in cpt_details)
RECURSIVE SumCounts(_)
SumCounts(cpt_details) ==
    IF cpt_details = <<>> THEN 0
    ELSE Head(cpt_details).count + SumCounts(Tail(cpt_details))

\* the dict of get_cpt_overview for one outcome of the sort
get_cpt_overview(store, cpt_details) ==
    LET total_cpt_uses == SumCounts(cpt_details)
        total_claims == count_documents(store, Query("claim", "any"))
    IN  [unique_cpt_codes |-> Len(cpt_details),
         total_cpt_uses |-> total_cpt_uses,
         total_claims |-> total_claims,
         average_cpt_per_claim |-> IF total_claims > 0
                                   THEN round(total_cpt_uses, total_claims, 2)
                                   ELSE Fixed(0, 0),
         cpt_details |-> cpt_details]

\* get_top_cpt_codes with top_n = 10
get_top_cpt_codes(cpt_details) ==
    LET total_uses == SumCounts(cpt_details)
        top_cpt_codes == SubSeq(cpt_details, 1, IF Len(cpt_details) < 10
                                                THEN Len(cpt_details) ELSE 10)
    IN  [top_cpt_codes |->
            [idx \in DOMAIN top_cpt_codes |->
                [rank |-> idx, cpt_code |-> top_cpt_codes[idx]._id,
                 count |-> top_cpt_codes[idx].count,
                 percentage |-> round(top_cpt_codes[idx].count * 100, total_uses, 2)]]]

\* mutant of IsRare: a code used exactly threshold times is not rare
IsRareBelow(item, threshold) == item.count < threshold

\* item["count"] <= threshold
IsRare(item, threshold) == item.count <= threshold

\* [item for item in cpt_details if item["count"] <= threshold]
RareCodes(cpt_details, threshold) ==
    SelectSeq(cpt_details, LAMBDA item : IsRare(item, threshold))

\* CPTCodeAnalyzer.get_rare_cpt_codes of ai_core: the literal 0 without codes,
\* at most 20 rare codes listed
get_rare_cpt_codes(cpt_details, threshold) ==
    LET rare_codes == RareCodes(cpt_details, threshold)
        rare_count == Len(rare_codes)
        total_unique == Len(cpt_details)
    IN  [rare_cpt_count |-> rare_count,
         rare_percentage |-> IF total_unique > 0
                             THEN round(rare_count * 100, total_unique, 2)
                             ELSE Fixed(0, 0),
         rare_codes |-> SubSeq(rare_codes, 1, IF rare_count < 20 THEN rare_count ELSE 20)]

\* CPTCodeAnalyzer.get_rare_cpt_codes of data_quality/cpt_code_analysis.py:
\* the percentage is rounded at the return, every rare code is listed
legacy_get_rare_cpt_codes(cpt_details, threshold) ==
    LET rare_codes == RareCodes(cpt_details, threshold)
        rare_count == Len(rare_codes)
        total_unique == Len(cpt_details)
    IN  [rare_cpt_count |-> rare_count,
         rare_percentage |-> IF total_unique > 0
                             THEN round(rare_count * 100, total_unique, 2)
                             ELSE round(0, 1, 2),
         rare_codes |-> rare_codes]

\* the empty dict
EmptyDict == <<>>

\* {"$ne": ["$charges.modifier", None]} and {"$ne": ["$charges.modifier", ""]}:
\* in an expression a missing field is neither null nor ""
HasModifier(c) == c.modifier # Null /\ c.modifier # Num("")

\* analyze_modifier_usage
analyze_modifier_usage(store) ==
    LET rows == {r \in Unwind(store, "charges") : HasCptCode(r.item)}
        total == Cardinality(rows)
        with_mods == Cardinality({r \in rows : HasModifier(r.item)})
    IN  IF rows = {} THEN EmptyDict
        ELSE [total_charges |-> total, with_modifiers |-> with_mods,
              without_modifiers |-> total - with_mods,
              with_modifiers_percentage |-> round(with_mods * 100, total, 2)]

\* round(item["avg_amount"], 2) raises on the None of a code none of whose
\* charges has a numeric amount
FinancialRaises(store) ==
    \E r \in {x \in Unwind(store, "charges") : HasCptCode(x.item)} :
        \A y \in Unwind(store, "charges") :
            y.item.cptHcpcs = r.item.cptHcpcs => y.item.amount.state # "set"

\* analyze_cpt_financial: the revenue of each code and of all listed codes,
\* rounded to the cent; the samples hold fewer than 10 codes, and the order
\* of the list is not kept
analyze_cpt_financial(store) ==
    LET rows == {r \in Unwind(store, "charges") : HasCptCode(r.item)}
        of(code) == {r \in rows : r.item.cptHcpcs = code}
        priced(code) == {r \in of(code) : r.item.amount.state = "set"}
        codes == {r.item.cptHcpcs : r \in rows}
        all == {r \in rows : r.item.amount.state = "set"}
    IN  [total_revenue |-> RoundCents(Num(SumAmounts(all))).value,
         top_revenue_cpt_codes |->
            {[cpt_code |-> code,
              total_revenue |-> RoundCents(Num(SumAmounts(priced(code)))).value,
              count |-> Cardinality(of(code)),
              avg_amount |-> round(SumAmounts(priced(code)),
                                   Dollars(1) * Cardinality(priced(code)), 2)] :
                code \in codes}]

\* the "$cond" of check_missing_cpt_codes: the code is null, "" or missing
MissingCpt(c) == c.cptHcpcs = Null \/ c.cptHcpcs = Num("") \/ IsNull(c.cptHcpcs)

\* check_missing_cpt_codes: one group over all unwound charges
check_missing_cpt_codes(store) ==
    LET rows == Unwind(store, "charges")
        total == Cardinality(rows)
        missing == Cardinality({r \in rows : MissingCpt(r.item)})
    IN  IF rows = {} THEN EmptyDict
        ELSE [total_charges |-> total, valid_cpt_codes |-> total - missing,
              missing_cpt_codes |-> missing,
              missing_percentage |-> round(missing * 100, total, 2)]

\* the awaits of CPTCodeAnalyzer.analyze, in order
CptQueries ==
    <<"get_cpt_overview", "count_documents", "analyze_modifier_usage",
      "analyze_cpt_financial", "check_missing_cpt_codes">>

\* CPTCodeAnalyzer.analyze when its query number fail raises (0: none does),
\* for one outcome of the sort of the overview
cpt_analyze(store, cpt_details, fail) ==
    IF fail # 0
    THEN [kind |-> "cpt", outcome |-> "raised", failed |-> CptQueries[fail]]
    ELSE IF FinancialRaises(store)
    THEN [kind |-> "cpt", outcome |-> "raised", failed |-> "round"]
    ELSE [kind |-> "cpt", outcome |-> "returned", failed |-> None,
          report |-> [cpt_overview |-> get_cpt_overview(store, cpt_details),
                      top_cpt_codes |-> get_top_cpt_codes(cpt_details),
                      rare_cpt_codes |-> get_rare_cpt_codes(cpt_details, 5),
                      modifier_usage |-> analyze_modifier_usage(store),
                      financial_analysis |-> analyze_cpt_financial(store),
                      missing_cpt |-> check_missing_cpt_codes(store)]]

\* the per-code usage counts handed to get_rare_cpt_codes: the counts
\* 50, 40, 10, 5, 5, 5, 1 of seven codes, and every list of up to MaxCodes
\* codes used up to MaxUsage times, most used first
UsageScenario == <<50, 40, 10, 5, 5, 5, 1>>

UsageCounts ==
    {UsageScenario} \cup
    UNION {{s \in [1..n -> 1..MaxUsage] : \A i, j \in 1..n : i < j => s[i] >= s[j]} :
              n \in 0..MaxCodes}

\* the codes of the groups of such a list
CodeNames == <<"99213", "99214", "27447", "36415", "80053", "85025", "93000">>

\* the list of groups of a list of counts; the code of a group is a string
CptDetails(counts) ==
    [i \in DOMAIN counts |-> [_id |-> Num(CodeNames[i]), count |-> counts[i]]]

\* the arguments of a call of get_rare_cpt_codes
RareInputs ==
    {[kind |-> "rare_input", cpt_details |-> CptDetails(counts), threshold |-> t] :
        counts \in UsageCounts, t \in (0..MaxUsage) \cup {5}}

\* no analysis has run
NoAnalysis == [kind |-> "none"]

\* ------------------------------------------------------------------------
\* run and run_checks
\* ------------------------------------------------------------------------

VARIABLES
    feature_name,   \* the class of the checker: its feature_name
    entry,          \* the method the caller awaits: "run" or "run_checks"
    pc,             \* where the call is
    app_settings,   \* self.app_settings
    thresholds,     \* the four threshold attributes of the additional charge checker
    results,        \* the local list of run_checks
    raised,         \* run_checks raised an exception
    missing_settings, \* the required settings CHECK 1 reported missing
    last_call,      \* arguments of the latest create_check_result of a generic checker
    returned,       \* what the caller received
    score,          \* calculate_readiness_score(returned)
    status          \* get_readiness_status(score)

VARIABLES
    claims,         \* db["claims"]: the number of stored copies of each document
    analysis        \* the outcome of the latest call of a category aggregator

\* the variables of the readiness checks
rvars == <<feature_name, entry, pc, app_settings, thresholds, results, raised,
           missing_settings, last_call, returned, score, status>>

VARIABLES
    run,            \* the run of the report assembler: its number, its state and
                    \* the categories whose aggregator has completed
    quality_reports \* the persisted QualityReport documents, oldest first

VARIABLES
    main            \* run_all_readiness_checks of main.py: where it is, what
                    \* each feature reported, and the exit code it returned

\* the variables of the category aggregators
qvars == <<claims, analysis>>

\* the variable of the command line entry point
mvars == <<main>>

\* the variables of the report assembler
avars == <<run, quality_reports>>

vars == <<rvars, qvars, avars, mvars>>

\* the six category sub-reports of a DataQualityResult
Categories == {"diagnosis", "payer", "charges", "cpt", "claims", "adjustment"}

\* the version every report of this model carries
ReportVersion == 1

\* a sub-report a category aggregator returned, and the overview block
CategoryReport == "report"
Overview == "overview"

\* DataQualityResult(...): every sub-report is Optional and defaults to None
DataQualityResult(timestamp, completed, overview) ==
    [timestamp |-> timestamp,
     version |-> ReportVersion,
     categories |-> [c \in Categories |->
                        IF c \in completed THEN CategoryReport ELSE None],
     overview |-> overview]

\* the two features main.py validates, in the order it runs them
MainFeatures == <<"additional_charge", "charge_analysis">>

\* nothing was reported for a feature yet
NoSummary ==
    [score |-> [num |-> 0, den |-> 1], status |-> "None", passed |-> 0,
     total_checks |-> 0, raised |-> FALSE]

\* run_all_readiness_checks was not called yet
NoMain ==
    [stage |-> "start", connected |-> FALSE,
     features |-> [f \in {MainFeatures[1], MainFeatures[2]} |-> NoSummary],
     exit |-> [state |-> "null"]]

\* no run was started yet
NoRun == [number |-> 0, state |-> "idle", completed |-> {}]

NoCall == [status |-> None, severity |-> None, solution |-> None]

Init ==
    /\ feature_name = None
    /\ entry = None
    /\ pc = "idle"
    /\ app_settings = NoSettings
    /\ thresholds = BuiltinThresholds
    /\ results = <<>>
    /\ raised = FALSE
    /\ missing_settings = {}
    /\ last_call = NoCall
    /\ returned = <<>>
    /\ score = Zero
    /\ status = None
    /\ claims = EmptyCollection
    /\ analysis = NoAnalysis
    /\ run = NoRun
    /\ quality_reports = <<>>
    /\ main = NoMain

\* a caller is about to hand a list of usage counts and a threshold to
\* get_rare_cpt_codes
InitRare ==
    /\ feature_name = None
    /\ entry = None
    /\ pc = "idle"
    /\ app_settings = NoSettings
    /\ thresholds = BuiltinThresholds
    /\ results = <<>>
    /\ raised = FALSE
    /\ missing_settings = {}
    /\ last_call = NoCall
    /\ returned = <<>>
    /\ score = Zero
    /\ status = None
    /\ claims = EmptyCollection
    /\ analysis \in RareInputs
    /\ run = NoRun
    /\ quality_reports = <<>>
    /\ main = NoMain

\* mutant of ShortCircuits: the early exit is missing
ShortCircuitsNever(result) == FALSE

\* mutant of ShortCircuits: any failure of the first check stops the feature
ShortCircuitsOnAnyFailure(result) == result.status = "failed"

\* "If app_settings check fails critically, stop"
ShortCircuits(result) ==
    result.status = "failed" /\ result.severity = "critical"

\* the caller constructs a checker and awaits run or run_checks
Start(fn, e) ==
    /\ pc = "idle"
    /\ feature_name' = fn
    /\ entry' = e
    /\ pc' = IF fn = "unknown" THEN "generic" ELSE "check1"
    /\ UNCHANGED <<qvars, avars, mvars>>
    /\ UNCHANGED <<app_settings, thresholds, results, raised, missing_settings, last_call,
                   returned, score, status>>

\* CHECK 1 of ChargeAnalysisReadinessCheck.run_checks
ChargeCheck1(found) ==
    /\ pc = "check1"
    /\ feature_name = "charge_analysis"
    /\ LET result == ChargeAppSettingsValidation(found)
       IN  /\ results' = Append(results, result)
           /\ pc' = IF ShortCircuits(result) THEN "return" ELSE "check2"
    /\ app_settings' = LoadedSettings(found)
    /\ missing_settings' = ChargeMissingSettings(found)
    /\ UNCHANGED <<qvars, avars, mvars>>
    /\ UNCHANGED <<feature_name, entry, thresholds, raised, last_call,
                   returned, score, status>>

\* CHECK 1 of AdditionalChargeReadinessCheck.run_checks
AdditionalCheck1(found) ==
    /\ pc = "check1"
    /\ feature_name = "additional_charge"
    /\ LET result == AdditionalAppSettingsValidation(found)
       IN  /\ results' = Append(results, result)
           /\ pc' = IF ShortCircuits(result) THEN "return" ELSE "check2"
    /\ app_settings' = LoadedSettings(found)
    /\ thresholds' =
          IF LoadedSettings(found).loaded /\ MissingSections(LoadedSettings(found)) = {}
          THEN LoadedThresholds(LoadedSettings(found).readiness_settings)
          ELSE thresholds
    /\ missing_settings' = AdditionalMissingSettings(found)
    /\ UNCHANGED <<qvars, avars, mvars>>
    /\ UNCHANGED <<feature_name, entry, raised, last_call, returned, score, status>>

\* mutant of LaterCheck: the result is appended twice
LaterCheckTwice(fn, at, result, next) ==
    /\ pc = at
    /\ feature_name = fn
    /\ results' = Append(Append(results, result), result)
    /\ pc' = next
    /\ UNCHANGED <<qvars, avars, mvars>>
    /\ UNCHANGED <<feature_name, entry, app_settings, thresholds, raised, missing_settings,
                   last_call, returned, score, status>>

\* mutant of LaterCheck: a critical failure of a later check stops the feature
LaterCheckShortCircuits(fn, at, result, next) ==
    /\ pc = at
    /\ feature_name = fn
    /\ results' = Append(results, result)
    /\ pc' = IF result.status = "failed" /\ result.severity = "critical"
             THEN "return" ELSE next
    /\ UNCHANGED <<qvars, avars, mvars>>
    /\ UNCHANGED <<feature_name, entry, app_settings, thresholds, raised, missing_settings,
                   last_call, returned, score, status>>

\* a later check appends its result and the next one follows
LaterCheck(fn, at, result, next) ==
    /\ pc = at
    /\ feature_name = fn
    /\ results' = Append(results, result)
    /\ pc' = next
    /\ UNCHANGED <<qvars, avars, mvars>>
    /\ UNCHANGED <<feature_name, entry, app_settings, thresholds, raised, missing_settings,
                   last_call, returned, score, status>>

\* CHECK 2 and CHECK 3 of ChargeAnalysisReadinessCheck.run_checks
ChargeCheck2(obs) ==
    LaterCheck("charge_analysis", "check2", check_claims_data_analysis(obs), "check3")

ChargeCheck3(obs) ==
    LaterCheck("charge_analysis", "check3",
               check_historical_stats_availability(app_settings.readiness_settings, obs),
               "return")

\* CHECK 2 to CHECK 5 of AdditionalChargeReadinessCheck.run_checks
AdditionalCheck2(obs) ==
    LaterCheck("additional_charge", "check2",
               check_claims_with_diagnoses(thresholds.claims_with_diagnoses_threshold, obs),
               "check3")

AdditionalCheck3(obs) ==
    LaterCheck("additional_charge", "check3",
               check_diagnosis_diversity(thresholds.diagnosis_diversity_threshold, obs),
               "check4")

AdditionalCheck4(obs) ==
    LaterCheck("additional_charge", "check4",
               check_diagnosis_cpt_patterns(thresholds.diagnosis_cpt_min_combinations, obs),
               "check5")

AdditionalCheck5(obs) ==
    LaterCheck("additional_charge", "check5", check_data_quality(obs), "return")

\* what a run_checks written against the base class may pass to
\* create_check_result
GenericCalls ==
    {[status |-> "passed", severity |-> None, solution |-> None],
     [status |-> "passed", severity |-> "high", solution |-> "advice"],
     [status |-> "failed", severity |-> None, solution |-> None]}
    \cup {[status |-> "failed", severity |-> sev, solution |-> "advice"] :
            sev \in FeatureIssueSeverity}

GenericKeys == <<"data_availability", "cpt_diversity", "coverage", "freshness", "quality">>

\* a run_checks of another subclass builds one more result
GenericAppend(call) ==
    /\ pc = "generic"
    /\ Len(results) < MaxGenericResults
    /\ results' = Append(results,
            create_check_result(feature_name, GenericKeys[Len(results) + 1],
                                call.status, call.severity, call.solution))
    /\ last_call' = call
    /\ UNCHANGED <<qvars, avars, mvars>>
    /\ UNCHANGED <<feature_name, entry, pc, app_settings, thresholds, raised, missing_settings,
                   returned, score, status>>

\* ... returns its list
GenericFinish ==
    /\ pc = "generic"
    /\ pc' = "return"
    /\ UNCHANGED <<qvars, avars, mvars>>
    /\ UNCHANGED <<feature_name, entry, app_settings, thresholds, results, raised, missing_settings,
                   last_call, returned, score, status>>

\* ... or raises an exception
GenericRaise ==
    /\ pc = "generic"
    /\ raised' = TRUE
    /\ pc' = "raise"
    /\ UNCHANGED <<qvars, avars, mvars>>
    /\ UNCHANGED <<feature_name, entry, app_settings, thresholds, results,
                   missing_settings, last_call, returned, score, status>>

\* mutant of run_result: the exception becomes an empty list
run_result_empty(fn, has_raised, list) == IF has_raised THEN <<>> ELSE list

\* mutant of run_result: the synthetic result is appended to the partial list
run_result_appended(fn, has_raised, list) ==
    IF has_raised
    THEN Append(list, create_check_result(fn, "check_execution_failed", "failed", "critical",
            "Check logs for details and ensure data access is configured correctly"))
    ELSE list

\* BaseFeatureReadinessCheck.run: try: return run_checks() / except Exception
run_result(fn, has_raised, list) ==
    IF has_raised
    THEN <<create_check_result(fn, "check_execution_failed", "failed", "critical",
            "Check logs for details and ensure data access is configured correctly")>>
    ELSE list

\* run returns to its caller
RunReturns ==
    /\ entry = "run"
    /\ pc \in {"return", "raise"}
    /\ returned' = run_result(feature_name, raised, results)
    /\ pc' = "done"
    /\ UNCHANGED <<qvars, avars, mvars>>
    /\ UNCHANGED <<feature_name, entry, app_settings, thresholds, results, raised, missing_settings,
                   last_call, score, status>>

\* run_checks, awaited directly, returns its list
RunChecksReturns ==
    /\ entry = "run_checks"
    /\ pc = "return"
    /\ returned' = results
    /\ pc' = "done"
    /\ UNCHANGED <<qvars, avars, mvars>>
    /\ UNCHANGED <<feature_name, entry, app_settings, thresholds, results, raised, missing_settings,
                   last_call, score, status>>

\* run_checks, awaited directly, raises to its caller
RunChecksRaises ==
    /\ entry = "run_checks"
    /\ pc = "raise"
    /\ pc' = "raised"
    /\ UNCHANGED <<qvars, avars, mvars>>
    /\ UNCHANGED <<feature_name, entry, app_settings, thresholds, results, raised, missing_settings,
                   last_call, returned, score, status>>

\* the caller scores the list it received
Score ==
    /\ pc = "done"
    /\ score' = calculate_readiness_score(returned)
    /\ status' = get_readiness_status(calculate_readiness_score(returned))
    /\ pc' = "scored"
    /\ UNCHANGED <<qvars, avars, mvars>>
    /\ UNCHANGED <<feature_name, entry, app_settings, thresholds, results, raised, missing_settings,
                   last_call, returned>>

\* the scores a caller may hand to get_readiness_status: "0.0 to 100.0"
ScoreInputs == {Rational(n, 1) : n \in 0..100}

\* a caller asks for the status of a score of its own
StatusOfScore(s) ==
    /\ pc = "idle"
    /\ score' = s
    /\ status' = get_readiness_status(s)
    /\ pc' = "classified"
    /\ UNCHANGED <<qvars, avars, mvars>>
    /\ UNCHANGED <<feature_name, entry, app_settings, thresholds, results, raised,
                   missing_settings, last_call, returned>>

Next ==
    \/ \E fn \in FeatureNames, e \in {"run", "run_checks"} : Start(fn, e)
    \/ \E found \in FindOneOutcomes : ChargeCheck1(found)
    \/ \E found \in FindOneOutcomes : AdditionalCheck1(found)
    \/ \E obs \in ClaimsDataObservations : ChargeCheck2(obs)
    \/ \E obs \in HistoricalStatsObservations : ChargeCheck3(obs)
    \/ \E obs \in ClaimsWithDiagnosesObservations : AdditionalCheck2(obs)
    \/ \E obs \in DiagnosisDiversityObservations : AdditionalCheck3(obs)
    \/ \E obs \in DiagnosisCptObservations : AdditionalCheck4(obs)
    \/ \E obs \in DataQualityObservations : AdditionalCheck5(obs)
    \/ \E call \in GenericCalls : GenericAppend(call)
    \/ GenericFinish
    \/ GenericRaise
    \/ RunReturns
    \/ RunChecksReturns
    \/ RunChecksRaises
    \/ Score
    \/ \E s \in ScoreInputs : StatusOfScore(s)

Spec == Init /\ [][Next]_vars

\* ------------------------------------------------------------------------
\* The category aggregators over the claims collection
\* ------------------------------------------------------------------------

\* the loader inserts one more claim document; a caller then runs one
\* analysis on the loaded collection
InsertClaim(s) ==
    /\ analysis = NoAnalysis
    /\ Cardinality(Documents(claims)) < MaxClaims
    /\ claims' = [claims EXCEPT ![s] = @ + 1]
    /\ UNCHANGED analysis
    /\ UNCHANGED <<rvars, avars, mvars>>

\* charges_analysis(db); get_charge_ranges issues no query without charges
ChargesRunAll(fail) ==
    /\ analysis = NoAnalysis
    /\ fail = 4 => get_total_charges_count(claims) > 0
    /\ analysis' = run_all(claims, fail)
    /\ UNCHANGED claims
    /\ UNCHANGED <<rvars, avars, mvars>>

\* diagnosis_analysis(db)
DiagnosisAnalyze(fail) ==
    /\ analysis = NoAnalysis
    /\ analysis' = analyze(claims, fail)
    /\ UNCHANGED claims
    /\ UNCHANGED <<rvars, avars, mvars>>

\* adjustment_analysis(db)
AdjustmentAnalysis(fail) ==
    /\ analysis = NoAnalysis
    /\ analysis' = adjustment_analysis(claims, fail)
    /\ UNCHANGED claims
    /\ UNCHANGED <<rvars, avars, mvars>>

\* claims_analysis(db)
ClaimsAnalysis(fail) ==
    /\ analysis = NoAnalysis
    /\ ClaimsQueryIssued(claims, fail)
    /\ analysis' = claims_analysis(claims, fail)
    /\ UNCHANGED claims
    /\ UNCHANGED <<rvars, avars, mvars>>

\* cpt_analysis(db)
CptAnalyze(cpt_details, fail) ==
    /\ analysis = NoAnalysis
    /\ cpt_details \in SortedByCount(CptGroups(claims))
    /\ analysis' = cpt_analyze(claims, cpt_details, fail)
    /\ UNCHANGED claims
    /\ UNCHANGED <<rvars, avars, mvars>>

\* charges_analyzer(db).run_analysis()
RunAnalysis(fail) ==
    /\ analysis = NoAnalysis
    /\ analysis' = run_analysis(claims, fail)
    /\ UNCHANGED claims
    /\ UNCHANGED <<rvars, avars, mvars>>

\* a caller evaluates calculate_percentage(part, total, decimals)
CalculatePercentage(part, total, decimals) ==
    /\ analysis = NoAnalysis
    /\ analysis' = [kind |-> "calculate_percentage", part |-> part, total |-> total,
                    decimals |-> decimals,
                    result |-> calculate_percentage(part, total, decimals)]
    /\ UNCHANGED claims
    /\ UNCHANGED <<rvars, avars, mvars>>

NextQuality ==
    \/ \E s \in DOMAIN ClaimSamples : InsertClaim(s)
    \/ \E fail \in 0..Len(ChargesQueries) : ChargesRunAll(fail)
    \/ \E fail \in 0..Len(DiagnosisQueries) : DiagnosisAnalyze(fail)
    \/ \E fail \in 0..Len(AdjustmentQueries) : AdjustmentAnalysis(fail)
    \/ \E fail \in 0..Len(ClaimsQueries) : ClaimsAnalysis(fail)
    \/ \E fail \in 0..Len(LegacyAnalyses) : RunAnalysis(fail)
    \/ \E cpt_details \in SortedByCount(CptGroups(claims)), fail \in 0..Len(CptQueries) :
            CptAnalyze(cpt_details, fail)
    \/ \E part \in 0..MaxOperand, total \in 0..MaxOperand, decimals \in {0, 2, 4} :
            CalculatePercentage(part, total, decimals)

SpecQuality == Init /\ [][NextQuality]_vars

\* CPTCodeAnalyzer(db).get_rare_cpt_codes(cpt_details, threshold) of ai_core
GetRareCptCodes ==
    /\ analysis.kind = "rare_input"
    /\ analysis' = [kind |-> "rare", cpt_details |-> analysis.cpt_details,
                    threshold |-> analysis.threshold,
                    result |-> get_rare_cpt_codes(analysis.cpt_details,
                                                  analysis.threshold)]
    /\ UNCHANGED claims
    /\ UNCHANGED <<rvars, avars, mvars>>

\* the same call on the CPTCodeAnalyzer of data_quality/cpt_code_analysis.py
LegacyGetRareCptCodes ==
    /\ analysis.kind = "rare_input"
    /\ analysis' = [kind |-> "legacy_rare", cpt_details |-> analysis.cpt_details,
                    threshold |-> analysis.threshold,
                    result |-> legacy_get_rare_cpt_codes(analysis.cpt_details,
                                                         analysis.threshold)]
    /\ UNCHANGED claims
    /\ UNCHANGED <<rvars, avars, mvars>>

NextRare == GetRareCptCodes \/ LegacyGetRareCptCodes

SpecRare == InitRare /\ [][NextRare]_vars

\* ------------------------------------------------------------------------
\* The report assembler: one run merges the six category reports and the
\* overview into one QualityReport and writes it
\* ------------------------------------------------------------------------

\* how many runs are started
MaxRuns == 2

\* mutant of AllCompleted: the assembler does not wait for the aggregators
SomeCompleted(r) == r.completed # {}

\* the assembler blocks until all category aggregators complete
AllCompleted(r) == r.completed = Categories

\* an invocation starts a run; its number stands for its timestamp
StartRun ==
    /\ run.state # "running"
    /\ run.number < MaxRuns
    /\ run' = [number |-> run.number + 1, state |-> "running", completed |-> {}]
    /\ UNCHANGED quality_reports
    /\ UNCHANGED <<rvars, qvars, mvars>>

\* the aggregator of category c completes; the aggregators complete in any
\* order
CategoryCompletes(c) ==
    /\ run.state = "running"
    /\ c \notin run.completed
    /\ run' = [run EXCEPT !.completed = @ \cup {c}]
    /\ UNCHANGED quality_reports
    /\ UNCHANGED <<rvars, qvars, mvars>>

\* cancellation aborts the whole run
Cancel ==
    /\ run.state = "running"
    /\ run' = [run EXCEPT !.state = "cancelled"]
    /\ UNCHANGED quality_reports
    /\ UNCHANGED <<rvars, qvars, mvars>>

\* the store is unavailable: a run-level fatal error
StoreUnavailable ==
    /\ run.state = "running"
    /\ run' = [run EXCEPT !.state = "failed"]
    /\ UNCHANGED quality_reports
    /\ UNCHANGED <<rvars, qvars, mvars>>

\* the single write at the end of the run: one new document
Persist ==
    /\ run.state = "running"
    /\ AllCompleted(run)
    /\ quality_reports' =
           Append(quality_reports,
                  DataQualityResult(run.number, run.completed, Overview))
    /\ run' = [run EXCEPT !.state = "done"]
    /\ UNCHANGED <<rvars, qvars, mvars>>

\* the write fails: a run-level fatal error, nothing is stored
PersistFails ==
    /\ run.state = "running"
    /\ AllCompleted(run)
    /\ run' = [run EXCEPT !.state = "failed"]
    /\ UNCHANGED quality_reports
    /\ UNCHANGED <<rvars, qvars, mvars>>

NextReport ==
    \/ StartRun
    \/ \E c \in Categories : CategoryCompletes(c)
    \/ Cancel
    \/ StoreUnavailable
    \/ Persist
    \/ PersistFails

SpecReport == Init /\ [][NextReport]_vars

\* ------------------------------------------------------------------------
\* The command line entry point (main.py)
\* ------------------------------------------------------------------------

\* passed = sum(1 for r in results if r.status == CheckStatus.passed)
MainPassed(list) == Cardinality({i \in DOMAIN list : list[i].status = "passed"})

\* readiness_score = (passed / total_checks * 100) if total_checks > 0 else 0
MainReadinessScore(list) ==
    IF Len(list) > 0 THEN Rational(MainPassed(list) * 100, Len(list)) ELSE Zero

\* the STATUS line logged under the results of a feature
MainStatus(s) ==
    IF s.num = 100 * s.den THEN "READY"
    ELSE IF ScoreGE(s, 75) THEN "MOSTLY READY"
    ELSE IF ScoreGE(s, 50) THEN "PARTIALLY READY"
    ELSE "NOT READY"

\* what run_additional_charge_checks and run_charge_analysis_checks log and
\* return for the list run_checks returned
FeatureSummary(list) ==
    [score |-> MainReadinessScore(list),
     status |-> MainStatus(MainReadinessScore(list)),
     passed |-> MainPassed(list),
     total_checks |-> Len(list),
     raised |-> FALSE]

\* except Exception: return 0, []
RaisedSummary == [NoSummary EXCEPT !.raised = TRUE]

\* overall_score = (additional_score + charge_score) / 2
OverallScore(a, c) == Rational(a.num * c.den + c.num * a.den, 2 * a.den * c.den)

\* mutant of ExitCode: "mostly ready" counts as success
ExitCodeMostly(overall_score) == IF ScoreGE(overall_score, 75) THEN 0 ELSE 1

\* return 0 if overall_score == 100 else 1
ExitCode(overall_score) == IF overall_score.num = 100 * overall_score.den THEN 0 ELSE 1

\* the stage that follows the validation of a feature
StageAfter(stage) == IF stage = MainFeatures[1] THEN MainFeatures[2] ELSE "overall"

\* client, db = await init_db(): it connects, or it raises and
\* run_all_readiness_checks returns 1 from its except branch
InitDb(ok) ==
    /\ main.stage = "start"
    /\ main' = IF ok THEN [main EXCEPT !.stage = MainFeatures[1], !.connected = TRUE]
               ELSE [main EXCEPT !.stage = "exited", !.exit = Num(1)]
    /\ UNCHANGED <<rvars, qvars, avars>>

\* a fresh checker of the feature is constructed and its run_checks awaited
MainStartChecks ==
    /\ main.stage \in {MainFeatures[1], MainFeatures[2]}
    /\ pc \in {"idle", "summarised"}
    /\ feature_name' = main.stage
    /\ entry' = "run_checks"
    /\ pc' = "check1"
    /\ app_settings' = NoSettings
    /\ thresholds' = BuiltinThresholds
    /\ results' = <<>>
    /\ raised' = FALSE
    /\ missing_settings' = {}
    /\ last_call' = NoCall
    /\ returned' = <<>>
    /\ score' = Zero
    /\ status' = None
    /\ UNCHANGED <<qvars, avars, mvars>>

\* run_checks returned: the summary is logged and (readiness_score, results)
\* returned to run_all_readiness_checks
MainSummarise ==
    /\ main.stage \in {MainFeatures[1], MainFeatures[2]}
    /\ feature_name = main.stage
    /\ pc = "done"
    /\ main' = [main EXCEPT !.features[main.stage] = FeatureSummary(returned),
                            !.stage = StageAfter(main.stage)]
    /\ pc' = "summarised"
    /\ UNCHANGED <<feature_name, entry, app_settings, thresholds, results, raised,
                   missing_settings, last_call, returned, score, status>>
    /\ UNCHANGED <<qvars, avars>>

\* the constructor of the checker or its run_checks raises: 0, [] is returned
MainFeatureRaises ==
    /\ main.stage \in {MainFeatures[1], MainFeatures[2]}
    /\ pc # "done"
    /\ main' = [main EXCEPT !.features[main.stage] = RaisedSummary,
                            !.stage = StageAfter(main.stage)]
    /\ feature_name' = main.stage
    /\ entry' = "run_checks"
    /\ pc' = "summarised"
    /\ app_settings' = NoSettings
    /\ thresholds' = BuiltinThresholds
    /\ results' = <<>>
    /\ raised' = TRUE
    /\ missing_settings' = {}
    /\ last_call' = NoCall
    /\ returned' = <<>>
    /\ score' = Zero
    /\ status' = None
    /\ UNCHANGED <<qvars, avars>>

\* the overall summary, the exit code, and close_db in the finally branch
MainReturn ==
    /\ main.stage = "overall"
    /\ main' = [main EXCEPT
                  !.stage = "exited",
                  !.connected = FALSE,
                  !.exit = Num(ExitCode(OverallScore(main.features[MainFeatures[1]].score,
                                                     main.features[MainFeatures[2]].score)))]
    /\ UNCHANGED <<rvars, qvars, avars>>

NextMain ==
    \/ \E ok \in BOOLEAN : InitDb(ok)
    \/ MainStartChecks
    \/ \E found \in FindOneOutcomes : ChargeCheck1(found)
    \/ \E found \in FindOneOutcomes : AdditionalCheck1(found)
    \/ \E obs \in ClaimsDataObservations : ChargeCheck2(obs)
    \/ \E obs \in HistoricalStatsObservations : ChargeCheck3(obs)
    \/ \E obs \in ClaimsWithDiagnosesObservations : AdditionalCheck2(obs)
    \/ \E obs \in DiagnosisDiversityObservations : AdditionalCheck3(obs)
    \/ \E obs \in DiagnosisCptObservations : AdditionalCheck4(obs)
    \/ \E obs \in DataQualityObservations : AdditionalCheck5(obs)
    \/ RunChecksReturns
    \/ MainSummarise
    \/ MainFeatureRaises
    \/ MainReturn

SpecMain == Init /\ [][NextMain]_vars

\* ------------------------------------------------------------------------
\* The payer and CPT distributions of overviewpayer_analysis.py and of
\* scripts/analyze_dataquality.py
\* ------------------------------------------------------------------------

\* the "_id" of a "$group" by a field: a missing field groups under null
GroupId(f) == IF IsNull(f) THEN Null ELSE f

\* "$payerMCO" of a claim document
PayerOf(doc) == IF "payerMCO" \in DOMAIN doc THEN doc.payerMCO ELSE Absent

\* {"$group": {"_id": "$payerMCO", "claim_count": {"$sum": 1}}}; the count
\* field is named count here, as in analyze_dataquality.py
PayerGroups(store) ==
    {[_id |-> p, count |-> Cardinality({id \in Documents(store) :
                                            GroupId(PayerOf(Doc(id))) = p})] :
        p \in {GroupId(PayerOf(Doc(id))) : id \in Documents(store)}}

\* {"$unwind": "$charges"}, {"$group": {"_id": "$charges.cptHcpcs", ...}}
ChargeCodeGroups(store) ==
    LET rows == Unwind(store, "charges")
    IN  {[_id |-> code, count |-> Cardinality({r \in rows :
                                        GroupId(r.item.cptHcpcs) = code})] :
            code \in {GroupId(r.item.cptHcpcs) : r \in rows}}

\* results[:n]
FirstN(list, n) == SubSeq(list, 1, IF Len(list) < n THEN Len(list) ELSE n)

ZeroDivisionError == [outcome |-> "raised", error |-> "ZeroDivisionError"]

\* OverviewAndPayerAnalyzer.analyze_payer_distribution; the percentages of
\* the loop over the top 10 divide by the same total and are left out
analyze_payer_distribution(payer_results) ==
    LET total_claims == SumCounts(payer_results)
        top_5_count == SumCounts(FirstN(payer_results, 5))
    IN  IF total_claims = 0 THEN ZeroDivisionError
        ELSE [outcome |-> "returned",
              total_payers |-> Len(payer_results),
              total_claims |-> total_claims,
              top_5_concentration |-> Rational(top_5_count * 100, total_claims),
              insufficient_payers_count |->
                  Len(SelectSeq(payer_results, LAMBDA p : p.count < 100)),
              sufficient_payers_count |->
                  Len(SelectSeq(payer_results, LAMBDA p : p.count >= 100))]

\* DataQualityAnalyzer.analyze_payer_distribution: it logs and returns None
script_analyze_payer_distribution(grouped) ==
    LET total == SumCounts(grouped)
        top5 == SumCounts(FirstN(grouped, 5))
    IN  IF total = 0 THEN ZeroDivisionError
        ELSE [outcome |-> "returned",
              total_payers |-> Len(grouped),
              top5_pct |-> Rational(top5 * 100, total)]

\* DataQualityAnalyzer.analyze_cpt_codes: it logs and returns None; the
\* format of a rare code raises on a group whose _id is None
script_analyze_cpt_codes(store, grouped) ==
    LET total_usage == SumCounts(grouped)
        total_claims == count_documents(store, Query("claim", "any"))
        top10_total == SumCounts(FirstN(grouped, 10))
        rare == FirstN(SelectSeq(grouped, LAMBDA r : r.count < 10), 10)
    IN  IF total_claims = 0 \/ total_usage = 0 THEN ZeroDivisionError
        ELSE IF \E i \in DOMAIN rare : rare[i]._id = Null
        THEN [outcome |-> "raised", error |-> "TypeError"]
        ELSE [outcome |-> "returned",
              total_codes |-> Len(grouped),
              total_usage |-> total_usage,
              average_per_claim |-> Rational(total_usage, total_claims),
              top10_pct |-> Rational(top10_total * 100, total_usage)]

\* OverviewAndPayerAnalyzer(db).analyze_payer_distribution()
AnalyzePayerDistribution(payer_results) ==
    /\ analysis = NoAnalysis
    /\ analysis' = [kind |-> "payer_distribution"]
                       @@ analyze_payer_distribution(payer_results)
    /\ UNCHANGED claims
    /\ UNCHANGED <<rvars, avars, mvars>>

\* DataQualityAnalyzer().analyze_payer_distribution()
ScriptAnalyzePayerDistribution(grouped) ==
    /\ analysis = NoAnalysis
    /\ analysis' = [kind |-> "script_payer_distribution"]
                       @@ script_analyze_payer_distribution(grouped)
    /\ UNCHANGED claims
    /\ UNCHANGED <<rvars, avars, mvars>>

\* DataQualityAnalyzer().analyze_cpt_codes()
ScriptAnalyzeCptCodes(grouped) ==
    /\ analysis = NoAnalysis
    /\ analysis' = [kind |-> "script_cpt_codes"]
                       @@ script_analyze_cpt_codes(claims, grouped)
    /\ UNCHANGED claims
    /\ UNCHANGED <<rvars, avars, mvars>>

NextDistribution ==
    \/ \E s \in DOMAIN ClaimSamples : InsertClaim(s)
    \/ \E payer_results \in SortedByCount(PayerGroups(claims)) :
            AnalyzePayerDistribution(payer_results)
    \/ \E grouped \in SortedByCount(PayerGroups(claims)) :
            ScriptAnalyzePayerDistribution(grouped)
    \/ \E grouped \in SortedByCount(ChargeCodeGroups(claims)) :
            ScriptAnalyzeCptCodes(grouped)

SpecDistribution == Init /\ [][NextDistribution]_vars

\* ------------------------------------------------------------------------
\* Properties of the readiness checks (specification Spec)
\* ------------------------------------------------------------------------

Features == {"charge_analysis", "additional_charge"}

PassedCount(list) ==
    Cardinality({i \in 1..Len(list) : list[i].status = "passed"})

FailedCount(list, severity) ==
    Cardinality({i \in 1..Len(list) :
        list[i].status = "failed" /\ list[i].severity = severity})

\* C1: the score of a non-empty list is 100 x (sum of the weights of the passed
\* results) / (sum of the weights of all results), a passed result weighing 0.2
\* and a failed one 0.4, 0.3, 0.2, 0.1 for critical, high, medium, low (0.2 when
\* it carries no severity); the score of the empty list is 0.  In tenths:
C1_ScoreIsWeightedRatio ==
    pc = "scored" =>
        IF returned = <<>>
        THEN score.num = 0
        ELSE LET passed == 2 * PassedCount(returned)
                 all == passed
                        + 4 * FailedCount(returned, "critical")
                        + 3 * FailedCount(returned, "high")
                        + 2 * FailedCount(returned, "medium")
                        + 1 * FailedCount(returned, "low")
                        + 2 * FailedCount(returned, None)
             IN  score.num * all = 100 * passed * score.den

\* a scored list that mixes passed results with failed ones of two severities
C1_Witness ==
    /\ pc = "scored"
    /\ PassedCount(returned) = 1
    /\ FailedCount(returned, "critical") = 1
    /\ FailedCount(returned, "low") = 1
    /\ score.num * 7 = 200 * score.den

FailedCritically(result) ==
    result.status = "failed" /\ result.severity = "critical"

\* C2: in both features, when the first result is failed with severity critical
\* no later check is started and the returned list is exactly that one result.
C2_CriticalFirstCheckStops ==
    (feature_name \in Features /\ results # <<>> /\ FailedCritically(results[1])) =>
        /\ Len(results) = 1
        /\ pc \in {"return", "done", "scored"}
        /\ pc \in {"done", "scored"} => returned = <<results[1]>>

\* a feature returned after its first check failed critically
C2_Witness ==
    /\ feature_name = "additional_charge"
    /\ pc = "done"
    /\ Len(returned) = 1
    /\ FailedCritically(returned[1])
    /\ returned[1].key = "ais.additional_charge.app_settings_validation"

\* C3: when run_checks raises, run does not raise and returns exactly one
\* result, failed, critical, keyed <module>.<feature>.check_execution_failed;
\* when run_checks does not raise, run returns its list unchanged.
C3_RunIsolatesExceptions ==
    entry = "run" =>
        /\ pc # "raised"
        /\ pc \in {"done", "scored"} =>
            IF raised
            THEN /\ Len(returned) = 1
                 /\ FailedCritically(returned[1])
                 /\ returned[1].key =
                        "ais." \o feature_name \o ".check_execution_failed"
            ELSE returned = results

\* run returned after run_checks raised with a partial list already built
C3_Witness ==
    /\ entry = "run"
    /\ raised
    /\ pc = "done"
    /\ Len(results) = 2
    /\ Len(returned) = 1

SeverityOnlyIfFailed(list) ==
    \A i \in 1..Len(list) :
        /\ list[i].status = "passed" =>
                list[i].severity = None /\ list[i].solution = None
        /\ (list[i].severity # None \/ list[i].solution # None) =>
                list[i].status = "failed"

\* C4: a result built with status passed has no severity and no solution,
\* whatever was supplied; so in every list of run_checks or run, severity or
\* solution is set only if the status is failed.
C4_SeverityOnlyIfFailed ==
    /\ SeverityOnlyIfFailed(results)
    /\ SeverityOnlyIfFailed(returned)
    /\ (pc = "generic" /\ last_call.status = "passed" /\ results # <<>>) =>
            /\ results[Len(results)].severity = None
            /\ results[Len(results)].solution = None

\* a passed result was built from a call that supplied a severity and a solution
C4_Witness ==
    /\ pc = "generic"
    /\ last_call.status = "passed"
    /\ last_call.severity = "high"
    /\ last_call.solution # None
    /\ results # <<>>
    /\ results[Len(results)].status = "passed"
    /\ results[Len(results)].severity = None

\* C5: in both features, whenever a required setting is absent the app-settings
\* validation yields a failed result of severity critical, no exception reaches
\* the caller of run_checks, and the remaining checks of the feature are not run.
C5_MissingSettingIsCritical ==
    (feature_name \in Features /\ missing_settings # {}) =>
        /\ results # <<>>
        /\ FailedCritically(results[1])
        /\ Len(results) = 1
        /\ pc \in {"return", "done", "scored"}
        /\ ~raised

\* C9: the status is Ready exactly when score >= 80, Partial exactly when
\* 50 <= score < 80, and Not Ready exactly when score < 50.
C9_StatusBands ==
    pc \in {"scored", "classified"} =>
        /\ status \in {"Ready", "Partial", "Not Ready"}
        /\ status = "Ready" <=> score.num >= 80 * score.den
        /\ status = "Partial" <=>
                (score.num >= 50 * score.den /\ score.num < 80 * score.den)
        /\ status = "Not Ready" <=> score.num < 50 * score.den

\* a feature whose weighted score is exactly 80 is Ready
C9_Witness ==
    /\ pc = "scored"
    /\ feature_name = "additional_charge"
    /\ Len(returned) = 5
    /\ score.num = 80 * score.den
    /\ status = "Ready"

\* C10: when run_checks short-circuits on a critical failure of its
\* foundational check, the score of the partial list is 0 and its status is
\* Not Ready.
C10_ShortCircuitScoresZero ==
    (/\ pc = "scored"
     /\ feature_name \in Features
     /\ Len(returned) = 1
     /\ FailedCritically(returned[1])) =>
        /\ score.num = 0
        /\ status = "Not Ready"

\* charge analysis short-circuited on its validation and was scored
C10_Witness ==
    /\ pc = "scored"
    /\ feature_name = "charge_analysis"
    /\ entry = "run_checks"
    /\ returned = results
    /\ Len(returned) = 1
    /\ FailedCritically(returned[1])
    /\ returned[1].key = "ais.charge_analysis.app_settings_validation"

\* ------------------------------------------------------------------------
\* Properties of the category aggregators (specification SpecQuality)
\* ------------------------------------------------------------------------

\* the elements of an array field of a stored document
Items(id, field) ==
    IF Doc(id)[field].state = "set" THEN Doc(id)[field].value ELSE <<>>

\* element j of the diagnoses of a claim qualifies for a per-diagnosis check;
\* for multiple_primary and duplicate_order it does so together with another
\* element of the same claim
DiagnosisQualifies(name, id, j) ==
    LET items == Items(id, "diagnoses")
    IN  CASE name = "multiple_primary" ->
                /\ IsPrimary(items[j])
                /\ \E k \in DOMAIN items : k # j /\ IsPrimary(items[k])
          [] name = "duplicate_order" ->
                /\ HasOrder(items[j])
                /\ \E k \in DOMAIN items : k # j /\ items[k].order = items[j].order
          [] OTHER -> DiagnosisItemMatch(name, items[j])

\* the number of claims with a qualifying charge
ClaimsWithCharge(query) ==
    Cardinality({id \in Documents(claims) :
        \E j \in DOMAIN Items(id, "charges") :
            Satisfies(query, Items(id, "charges")[j])})

\* the number of qualifying charges
ChargesMatching(query) ==
    Cardinality(UNION {{<<id, j>> : j \in {k \in DOMAIN Items(id, "charges") :
                                              Satisfies(query, Items(id, "charges")[k])}} :
                       id \in Documents(claims)})

\* C6: the count of every charge-level issue check of ChargesAnalyzer, of every
\* charge-level check of adjustment_analysis and of every per-diagnosis check
\* of DiagnosisAnalyzer is the number of distinct claims that have at least one
\* qualifying line item, and it never exceeds the number of claims.
C6_LineItemChecksCountClaims ==
    /\ analysis.kind = "charges" =>
        \A name \in DOMAIN analysis.produced :
            /\ analysis.produced[name].count =
                   ClaimsWithCharge(Query("charge_issue", name))
            /\ analysis.produced[name].count <= Cardinality(Documents(claims))
    /\ (analysis.kind = "adjustment" /\ analysis.outcome = "returned") =>
        \A name \in AdjustmentChargeChecks :
            /\ analysis.report.issues[name].count =
                   ClaimsWithCharge(Query("adjustment_charge", name))
            /\ analysis.report.issues[name].count <= analysis.report.total_claims
    /\ analysis.kind = "diagnosis" =>
        \A name \in DOMAIN analysis.produced \cap DiagnosisItemChecks :
            /\ analysis.produced[name].count =
                   Cardinality({id \in Documents(claims) :
                       \E j \in DOMAIN Items(id, "diagnoses") :
                           DiagnosisQualifies(name, id, j)})
            /\ analysis.produced[name].count <= analysis.total_claims

\* a returned charges report whose count of overpaid charges is below the
\* number of overpaid charges: one claim holds two of them
C6_Witness ==
    /\ analysis.kind = "charges"
    /\ analysis.outcome = "returned"
    /\ analysis.report.issues["paid_greater_than_charge"].count >= 1
    /\ ChargesMatching(Query("charge_issue", "paid_greater_than_charge"))
           > analysis.report.issues["paid_greater_than_charge"].count

\* percentage is count / population x 100 rounded to the nearest multiple of
\* 10^-decimals
IsRounded(percentage, count, population, decimals) ==
    LET exact == count * 100 * Pow10(decimals)
        held == percentage.units * population
        distance == IF held >= exact THEN held - exact ELSE exact - held
    IN  /\ percentage.decimals = decimals
        /\ 2 * distance <= population

Normalized(percentage, count, population, decimals) ==
    IF population = 0 THEN percentage.units = 0
    ELSE IsRounded(percentage, count, population, decimals)

\* C7: a DataCount of ChargesAnalyzer.run_pipeline (population: the number of
\* charges), of DiagnosisAnalyzer.run_pipeline (population: the number of
\* claims) and the result of calculate_percentage have percentage 0.0 when the
\* population is 0, and round(count / population x 100, precision) otherwise.
C7_PercentageIsNormalized ==
    /\ analysis.kind = "charges" =>
        \A name \in DOMAIN analysis.produced :
            Normalized(analysis.produced[name].percentage,
                       analysis.produced[name].count, analysis.total_charges, 4)
    /\ analysis.kind = "diagnosis" =>
        \A name \in DOMAIN analysis.produced :
            Normalized(analysis.produced[name].percentage,
                       analysis.produced[name].count, analysis.total_claims, 4)
    /\ analysis.kind = "calculate_percentage" =>
        Normalized(analysis.result, analysis.part, analysis.total, analysis.decimals)

\* claims are stored but none has a charge: every check of the charges
\* analyzer was normalized against a population of 0
C7_Witness ==
    /\ analysis.kind = "charges"
    /\ Cardinality(Documents(claims)) > 0
    /\ analysis.total_charges = 0
    /\ DOMAIN analysis.produced = Prefix(ChargeChecks, Len(ChargeChecks))
    /\ \A name \in DOMAIN analysis.produced :
           analysis.produced[name] = DataCount(0, ZeroFloat)

\* the marker of a metric that could not be computed
Unavailable == [count |-> None, percentage |-> "unavailable"]

\* the issue checks of each category
CategoryChecks(kind) ==
    CASE kind = "charges" -> Prefix(ChargeChecks, Len(ChargeChecks))
      [] kind = "diagnosis" -> Prefix(DiagnosisChecks, Len(DiagnosisChecks))
      [] kind = "adjustment" -> AdjustmentClaimChecks \cup AdjustmentChargeChecks

\* C8: when the query of a single check of a category fails, on a collection
\* that holds claims with charges, the category report is still returned, with
\* that metric marked unavailable and every other check evaluated.
C8_CheckFailureIsIsolated ==
    (/\ analysis.kind \in {"charges", "diagnosis", "adjustment"}
     /\ analysis.failed \in CategoryChecks(analysis.kind)
     /\ Unwind(claims, "charges") # {}) =>
        /\ analysis.outcome = "returned"
        /\ \A name \in CategoryChecks(analysis.kind) :
              IF name = analysis.failed
              THEN analysis.produced[name] = Unavailable
              ELSE analysis.produced[name].count >= 0

\* ------------------------------------------------------------------------
\* Properties of claims_analysis (specification SpecQuality)
\* ------------------------------------------------------------------------

\* claims_analysis has returned its report
ClaimsReturned == analysis.kind = "claims" /\ analysis.outcome = "returned"

\* the claimId values that more than one stored claim carries
SharedClaimIds ==
    {key \in {ClaimIdKey(Doc(id)) : id \in Documents(claims)} :
        Cardinality(ClaimIdGroup(claims, key)) > 1}

\* C11: duplicate_claims.count of the report of claims_analysis is the number
\* of distinct claimId values shared by more than one claim, that is the
\* number of groups with more than one member.
C11_DuplicateCountIsGroups ==
    ClaimsReturned =>
        analysis.report.issues["duplicate_claims"].count = Cardinality(SharedClaimIds)

\* the sum of the charge amounts of a stored claim
ChargeSum(id) ==
    LET items == Items(id, "charges")
        Upto[k \in 0..Len(items)] ==
            IF k = 0 THEN 0 ELSE Upto[k - 1] + IfNull(items[k].amount, 0)
    IN  Upto[Len(items)]

\* cent n is the amount rounded to 2 decimals
RoundsTo(amount, n) ==
    LET distance == IF amount >= n * 10 THEN amount - n * 10 ELSE n * 10 - amount
    IN  \/ 2 * distance < 10
        \/ 2 * distance = 10 /\ n % 2 = 0

\* the two amounts are the same after both are rounded to 2 decimals
SameWhenRounded(a, b) ==
    \E n \in ((a \div 10) - 1)..((a \div 10) + 1) : RoundsTo(a, n) /\ RoundsTo(b, n)

\* the claim has a charge, and its claimed amount differs from the sum of its
\* charge amounts after rounding
RoundedMismatch(id) ==
    /\ Items(id, "charges") # <<>>
    /\ Doc(id).claimAmount.state = "set" =>
           ~SameWhenRounded(Doc(id).claimAmount.value, ChargeSum(id))

\* C12: claim_sum_mismatch counts the claims with at least one charge whose
\* claimed amount and sum of charge amounts differ after both are rounded to
\* 2 decimals, and no other claim; a claim of 100.00 whose charges sum to
\* 100.004 is not among them.
C12_MismatchAfterRounding ==
    ClaimsReturned =>
        /\ analysis.report.issues["claim_sum_mismatch"].count =
               Cardinality({id \in Documents(claims) : RoundedMismatch(id)})
        /\ \A id \in Documents(claims) :
               (/\ Doc(id).claimAmount = Num(Dollars(100))
                /\ ChargeSum(id) = Dollars(100) + 4) => ~RoundedMismatch(id)

\* a report over a claim of 100.00 with charges of 100.004 and a claim of
\* 600.006 with charges of 600.00: only the second is counted
C12_Witness ==
    /\ ClaimsReturned
    /\ analysis.report.issues["claim_sum_mismatch"].count = 1
    /\ \E id \in Documents(claims) :
           /\ Doc(id).claimAmount = Num(Dollars(100))
           /\ ChargeSum(id) = Dollars(100) + 4
    /\ \E id \in Documents(claims) :
           /\ Doc(id).claimAmount = Num(Dollars(600) + 6)
           /\ ChargeSum(id) = Dollars(600)

\* ------------------------------------------------------------------------
\* Properties of the two charges analyzers on a collection without charges
\* ------------------------------------------------------------------------

\* no claim of the collection has a charge
NoChargeLineItems == Unwind(claims, "charges") = {}

\* C13: when the claims collection holds no charge line item, the
\* charge-range report of ChargesAnalyzer.get_charge_ranges and of
\* charges_analyzer.charge_ranges is the empty list.
C13_NoChargesEmptyRanges ==
    NoChargeLineItems =>
        /\ (analysis.kind = "charges" /\ analysis.failed \notin Prefix(ChargesQueries, 3)) =>
               get_charge_ranges(claims, analysis.total_charges) = <<>>
        /\ (analysis.kind = "charges_analyzer" /\ analysis.outcome = "returned") =>
               analysis.results.ranges = <<>>

\* the all-zero statistics tagged "no_data"
ZeroStatistics(statistics) ==
    /\ statistics.total_charges = 0
    /\ statistics.avg_charge = Zero
    /\ statistics.min_charge = 0
    /\ statistics.max_charge = 0
    /\ statistics.count = 0
    /\ statistics.status = "no_data"

\* C14: when the claims collection holds no charge line item and no query
\* fails, the charges report of ChargesAnalyzer.run_all and of
\* charges_analyzer.run_analysis is produced, and its statistics have total,
\* average, minimum, maximum and count 0 and the tag "no_data".
C14_NoChargesZeroStatistics ==
    (NoChargeLineItems /\ analysis.kind \in {"charges", "charges_analyzer"}
                       /\ analysis.failed \notin Prefix(ChargesQueries, Len(ChargesQueries))
                                                   \cup Prefix(LegacyAnalyses, Len(LegacyAnalyses))) =>
        /\ analysis.outcome = "returned"
        /\ analysis.kind = "charges" =>
               /\ DOMAIN analysis.report.statistics =
                      {"total_charges", "avg_charge", "min_charge", "max_charge",
                       "count", "status"}
               /\ ZeroStatistics(analysis.report.statistics)
        /\ analysis.kind = "charges_analyzer" =>
               ZeroStatistics(analysis.results.statistics)

\* the stored claims with status Denied and a paid amount above 0
DeniedAndPaid ==
    {id \in Documents(claims) :
        /\ Doc(id).claimStatus = Num("Denied")
        /\ Doc(id).claimAmountPaid.state = "set"
        /\ Doc(id).claimAmountPaid.value > 0}

\* C15: denied_with_payment.count of the report of claims_analysis is the
\* number of claims with status Denied and a paid amount above 0, and its
\* percentage is that count / the number of claims x 100 rounded to 2
\* decimals.
C15_DeniedWithPayment ==
    ClaimsReturned =>
        LET reported == analysis.report.issues["denied_with_payment"]
            total == Cardinality(Documents(claims))
        IN  /\ reported.count = Cardinality(DeniedAndPaid)
            /\ total > 0 =>
                   IsRounded(reported.percentage, Cardinality(DeniedAndPaid), total, 2)

\* three claims, two of them denied, one of the two with a payment: 33.33
C15_Witness ==
    /\ ClaimsReturned
    /\ analysis.report.total_claims = 3
    /\ analysis.report.denied_count = 2
    /\ analysis.report.issues["denied_with_payment"] = DataCount(1, Fixed(3333, 2))

\* ------------------------------------------------------------------------
\* Properties of the CPT analysis (specifications SpecRare and SpecQuality)
\* ------------------------------------------------------------------------

\* get_rare_cpt_codes of either analyzer has returned
RareReturned == analysis.kind \in {"rare", "legacy_rare"}

\* the usage counts of the list handed to get_rare_cpt_codes
UsageOf(cpt_details) == [i \in DOMAIN cpt_details |-> cpt_details[i].count]

ClaimsMissingCpt ==
    {id \in Documents(claims) :
        \E j \in DOMAIN Items(id, "charges") :
            LET code == Items(id, "charges")[j].cptHcpcs
            IN  code = Absent \/ code = Null \/ code = Num("")}

\* C17: missing_cpt_codes of check_missing_cpt_codes counts each claim at
\* most once: it is at most the number of distinct claims that have a charge
\* without a CPT code.
C17_MissingCptCountsClaims ==
    (analysis.kind = "cpt" /\ analysis.outcome = "returned"
                           /\ analysis.report.missing_cpt # EmptyDict) =>
        analysis.report.missing_cpt.missing_cpt_codes <= Cardinality(ClaimsMissingCpt)

\* ------------------------------------------------------------------------
\* Properties of all category reports (specification SpecQuality)
\* ------------------------------------------------------------------------

\* the count is not negative and the percentage lies in 0..100
InRange(data_count) ==
    /\ data_count.count >= 0
    /\ data_count.percentage.units >= 0
    /\ data_count.percentage.units <= 100 * Pow10(data_count.percentage.decimals)

\* the DataCounts of a returned category report
ReportDataCounts ==
    CASE analysis.kind = "claims" ->
            {analysis.report.issues[name] : name \in ClaimIssueChecks}
      [] analysis.kind = "charges" ->
            {analysis.report.issues[name] : name \in DOMAIN analysis.report.issues}
      [] analysis.kind = "diagnosis" ->
            {analysis.report.Issues[name] : name \in DOMAIN analysis.report.Issues}
      [] analysis.kind = "adjustment" ->
            {analysis.report.issues[name] : name \in DOMAIN analysis.report.issues}

\* one of the four aggregators has returned its report; the collection is the
\* same for every query of the run
AggregatorReturned ==
    /\ analysis.kind \in {"claims", "charges", "diagnosis", "adjustment"}
    /\ analysis.outcome = "returned"

\* C18: every DataCount of a report returned by claims_analysis,
\* ChargesAnalyzer.run_all, DiagnosisAnalyzer.analyze or adjustment_analysis
\* has count >= 0 and a percentage between 0 and 100.
C18_DataCountsInRange ==
    AggregatorReturned => \A data_count \in ReportDataCounts : InRange(data_count)

\* a returned report of several claims that holds a DataCount of 0 and a
\* DataCount of 100 percent
C18_Witness ==
    /\ AggregatorReturned
    /\ Cardinality(Documents(claims)) > 1
    /\ \E data_count \in ReportDataCounts :
           data_count.count = 0 /\ data_count.percentage.units = 0
    /\ \E data_count \in ReportDataCounts :
           /\ data_count.count > 0
           /\ data_count.percentage.units = 100 * Pow10(data_count.percentage.decimals)


\* ------------------------------------------------------------------------
\* Properties of the report assembler (specification SpecReport)
\* ------------------------------------------------------------------------

\* the step writes to the collection of persisted reports
Writes == quality_reports' # quality_reports

\* the step appends one document that carries the timestamp of the run and
\* all six category reports, and leaves the older documents as they are
WritesOneFullReport ==
    /\ Len(quality_reports') = Len(quality_reports) + 1
    /\ SubSeq(quality_reports', 1, Len(quality_reports)) = quality_reports
    /\ LET written == quality_reports'[Len(quality_reports')]
       IN  /\ written.timestamp = run.number
           /\ \A c \in Categories : written.categories[c] # None

\* C19: a run persists exactly one QualityReport, written once, at the end of
\* the run and after all six category aggregators have completed; a cancelled
\* or failed run persists nothing, and no persisted report lacks a category.
C19_OneReportAtTheEnd ==
    [][/\ Writes =>
            /\ run.state = "running"
            /\ run.completed = Categories
            /\ run'.state = "done"
            /\ run'.number = run.number
            /\ WritesOneFullReport
       /\ (run'.state = "done" /\ run.state = "running") => Writes
       /\ run'.state \in {"cancelled", "failed"} => ~Writes]_vars

\* the first run was aborted with some categories completed and the second
\* run is done: the only persisted report is the one of the second run
C19_Witness ==
    /\ run.number = 2
    /\ run.state = "done"
    /\ Len(quality_reports) = 1
    /\ quality_reports[1].timestamp = 2
    /\ \A c \in Categories : quality_reports[1].categories[c] = CategoryReport

\* C20: BaseFeatureReadinessCheck.run always returns at least one CheckResult,
\* for every implementation of run_checks.
C20_RunReturnsAtLeastOne ==
    (entry = "run" /\ pc \in {"done", "scored"}) => Len(returned) >= 1

\* the severities of the failed results of a list
FailedSeverities(list) ==
    {list[i].severity : i \in {j \in DOMAIN list : list[j].status = "failed"}}

\* score is at most k, for a rational score
ScoreLE(s, k) == s.num <= k * s.den

\* C21: the readiness score of a result list lies in the band documented for
\* the worst severity among its failed results: 0 if some failed result is
\* critical, below 50 if the worst is high, 50 to 80 if the worst is medium,
\* 80 to 100 if the worst is low.
C21_ScoreInSeverityBand ==
    pc = "scored" =>
        LET failed == FailedSeverities(returned)
        IN  /\ "critical" \in failed => score.num = 0
            /\ (failed \cap {"critical"} = {} /\ "high" \in failed) =>
                  ~ScoreGE(score, 50)
            /\ (failed \cap {"critical", "high"} = {} /\ "medium" \in failed) =>
                  ScoreGE(score, 50) /\ ScoreLE(score, 80)
            /\ (failed \cap {"critical", "high", "medium"} = {} /\ "low" \in failed) =>
                  ScoreGE(score, 80) /\ ScoreLE(score, 100)

\* the four thresholds as the stored document supplies them, the built-in
\* value standing in for one it does not supply
SuppliedThresholds(doc) ==
    [n \in DiagnosisThresholdNames |->
        IF /\ doc.readiness_settings.state = "set"
           /\ doc.readiness_settings.fields[n].state = "set"
        THEN doc.readiness_settings.fields[n].value
        ELSE BuiltinThresholds[n]]

\* C22: the thresholds AdditionalChargeReadinessCheck uses in checks 2 to 4
\* are the values the readiness_settings of the stored app_settings document
\* supplies, and the built-in values 10, 5, 10, 5 only where it supplies none.
C22_ThresholdsFromSettings ==
    [][\A found \in FindOneOutcomes :
          (AdditionalCheck1(found) /\ pc' = "check2") =>
              thresholds' = SuppliedThresholds(found.doc)]_vars

\* ------------------------------------------------------------------------
\* Properties of the command line entry point (specification SpecMain)
\* ------------------------------------------------------------------------

\* the feature ran to its end and every check it evaluated passed
AllChecksPassed(f) ==
    /\ ~main.features[f].raised
    /\ main.features[f].total_checks > 0
    /\ main.features[f].passed = main.features[f].total_checks

\* C23: run_all_readiness_checks returns 0 if and only if every check
\* evaluated for both features passed; it returns 1 when a check failed, when
\* a feature was short-circuited, when a feature's checker raised and when
\* the database initialisation failed.
C23_ExitCode ==
    main.stage = "exited" =>
        /\ main.exit \in {Num(0), Num(1)}
        /\ main.exit = Num(0) <=>
              /\ AllChecksPassed("additional_charge")
              /\ AllChecksPassed("charge_analysis")
        /\ (\E f \in DOMAIN main.features : main.features[f].raised) =>
              main.exit = Num(1)
        /\ (\E f \in DOMAIN main.features :
                ~main.features[f].raised /\ main.features[f].total_checks = 1) =>
              main.exit = Num(1)

\* all five and all three checks passed and 0 was returned
C23_Witness ==
    /\ main.stage = "exited"
    /\ main.exit = Num(0)
    /\ main.features["additional_charge"].passed = 5
    /\ main.features["charge_analysis"].passed = 3

\* the checks of a feature in the order run_checks evaluates them
CheckOrder(fn) ==
    IF fn = "charge_analysis"
    THEN <<"app_settings_validation", "claims_data_analysis",
           "historical_stats_availability">>
    ELSE <<"app_settings_validation", "claims_with_diagnoses", "diagnosis_diversity",
           "diagnosis_cpt_patterns", "data_quality">>

\* the list holds one terminal result for each of the first checks of the
\* feature, in their order
OneResultPerCheck(fn, list) ==
    /\ Len(list) <= Len(CheckOrder(fn))
    /\ \A i \in DOMAIN list :
          /\ list[i].key = feature_module \o "." \o fn \o "." \o CheckOrder(fn)[i]
          /\ list[i].status \in CheckStatus
    /\ \A i, j \in DOMAIN list : i # j => list[i].key # list[j].key

\* C24: within one run_checks call each readiness check goes from unevaluated
\* to one terminal result at most once, in the fixed order of the feature; the
\* returned list holds one result per evaluated check in that order, with
\* pairwise distinct keys, and its length is 1 or the number of checks of the
\* feature (3 for charge analysis, 5 for additional charge).
C24_OneResultPerCheckInOrder ==
    [][feature_name' \in Features =>
          /\ OneResultPerCheck(feature_name', results')
          /\ \/ results' = results
             \/ /\ Len(results') = Len(results) + 1
                /\ SubSeq(results', 1, Len(results)) = results
          /\ pc' = "done" =>
                /\ returned' = results'
                /\ Len(returned') \in {1, Len(CheckOrder(feature_name'))}]_vars

\* run_checks of the additional charge checker returned five results, among
\* them a critical failure of a check after the first and a later pass
C24_Witness ==
    /\ feature_name = "additional_charge"
    /\ entry = "run_checks"
    /\ pc = "done"
    /\ Len(returned) = 5
    /\ returned[1].status = "passed"
    /\ returned[2].status = "failed"
    /\ returned[2].severity = "critical"
    /\ returned[5].status = "passed"

\* the step appends one failed result of severity critical to the local list
\* and leaves the earlier results as they are
AppendsCriticalFailure ==
    /\ Len(results') = Len(results) + 1
    /\ SubSeq(results', 1, Len(results)) = results
    /\ results'[Len(results')].status = "failed"
    /\ results'[Len(results')].severity = "critical"

\* the step is a check after the first one in which a data-store query raises
LaterCheckQueryRaises ==
    \/ \E obs \in ClaimsDataObservations : obs.raises /\ ChargeCheck2(obs)
    \/ \E obs \in HistoricalStatsObservations : obs.raises /\ ChargeCheck3(obs)
    \/ \E obs \in ClaimsWithDiagnosesObservations : obs.raises /\ AdditionalCheck2(obs)
    \/ \E obs \in DiagnosisDiversityObservations : obs.raises /\ AdditionalCheck3(obs)
    \/ \E obs \in DiagnosisCptObservations : obs.raises /\ AdditionalCheck4(obs)
    \/ \E obs \in DataQualityObservations : obs.raises /\ AdditionalCheck5(obs)

\* the check that follows, or the return after the last check
FollowingStep(at, fn) ==
    IF at = "check" \o ToString(Len(CheckOrder(fn))) THEN "return"
    ELSE CASE at = "check2" -> "check3"
           [] at = "check3" -> "check4"
           [] at = "check4" -> "check5"

\* C25: when a data-store query raises inside a readiness check that follows
\* the foundational one, that check alone yields a failed result of severity
\* critical, run_checks does not raise, and every remaining check of the
\* feature is still evaluated: the critical failure does not short-circuit.
C25_LaterQueryFailureIsIsolated ==
    [][/\ LaterCheckQueryRaises =>
            /\ AppendsCriticalFailure
            /\ pc' = FollowingStep(pc, feature_name)
       /\ feature_name' \in Features =>
            /\ ~raised'
            /\ pc' \notin {"raise", "raised"}
            /\ (pc' = "return" /\ Len(results') > 1) =>
                  Len(results') = Len(CheckOrder(feature_name'))]_vars

\* run_checks of the charge analysis checker returned three results: the
\* query of CHECK 2 raised and CHECK 3 was evaluated and passed
C25_Witness ==
    /\ feature_name = "charge_analysis"
    /\ entry = "run_checks"
    /\ pc = "done"
    /\ Len(returned) = 3
    /\ returned[2].status = "failed"
    /\ returned[2].severity = "critical"
    /\ returned[2].solution =
          "Check logs for details; verify database connection and data structure"
    /\ returned[3].status = "passed"

\* ------------------------------------------------------------------------
\* Properties of the distributions (specification SpecDistribution)
\* ------------------------------------------------------------------------

\* the ratios an analysis of the distributions reports
ReportedRatios ==
    CASE analysis.kind = "payer_distribution" -> {analysis.top_5_concentration}
      [] analysis.kind = "script_payer_distribution" -> {analysis.top5_pct}
      [] analysis.kind = "script_cpt_codes" ->
            {analysis.average_per_claim, analysis.top10_pct}

\* C26: on an empty claims collection OverviewAndPayerAnalyzer's
\* analyze_payer_distribution and DataQualityAnalyzer's
\* analyze_payer_distribution and analyze_cpt_codes complete without a
\* division-by-zero failure and report 0 for each ratio.
C26_EmptyCollectionReportsZero ==
    (/\ analysis.kind \in {"payer_distribution", "script_payer_distribution",
                           "script_cpt_codes"}
     /\ Documents(claims) = {}) =>
        /\ analysis.outcome = "returned"
        /\ \A ratio \in ReportedRatios : ratio.num = 0

\* C27: for every ChargesAnalyzer issue check, count and percentage refer to
\* the same population: the percentage is the claim-grouped count divided by
\* the total number of claims x 100, rounded to 4 decimals.
C27_ChargePercentageOverClaims ==
    analysis.kind = "charges" =>
        \A name \in DOMAIN analysis.produced :
            Normalized(analysis.produced[name].percentage,
                       analysis.produced[name].count,
                       Cardinality(Documents(claims)), 4)

\* the charge line items whose amount is a number that is not negative
NonNegativeCharges ==
    {r \in Unwind(claims, "charges") : QueryGte(r.item.amount, 0)}

\* the number of ranges of the returned distribution a charge is counted in
RangesHolding(c) ==
    Cardinality({i \in DOMAIN ChargeRanges : InChargeRange(i, c)})

RECURSIVE SumRangeCounts(_)
SumRangeCounts(ranges) ==
    IF ranges = <<>> THEN 0
    ELSE Head(ranges).count + SumRangeCounts(Tail(ranges))

\* C28: in ChargesAnalyzer.get_charge_ranges the six ranges partition the
\* non-negative amounts: every charge line with amount >= 0 is counted in
\* exactly one range, so the six counts sum to the number of charge lines
\* with a non-negative amount.
C28_RangesPartitionAmounts ==
    (/\ analysis.kind = "charges"
     /\ analysis.outcome = "returned"
     /\ analysis.report.ranges # <<>>) =>
        /\ Len(analysis.report.ranges) = 6
        /\ \A r \in NonNegativeCharges : RangesHolding(r.item) = 1
        /\ SumRangeCounts(analysis.report.ranges) = Cardinality(NonNegativeCharges)

\* the library band a STATUS label of main.py names, if any
StatusBand(label) ==
    CASE label = "READY" -> "Ready"
      [] label = "PARTIALLY READY" -> "Partial"
      [] label = "NOT READY" -> "Not Ready"
      [] OTHER -> label

\* equality of two rational scores
SameScore(a, b) == a.num * b.den = b.num * a.den

\* the feature whose run_checks returned and was summarised
SummarisedFeature ==
    /\ pc = "summarised"
    /\ ~main.features[feature_name].raised

\* C29: the readiness score and the status that run_additional_charge_checks
\* and run_charge_analysis_checks report for the list run_checks returned are
\* those of the library scorer: the score is calculate_readiness_score of the
\* list and the status is the get_readiness_status band of that score
C29_MainAgreesWithScorer ==
    SummarisedFeature =>
        /\ SameScore(main.features[feature_name].score,
                     calculate_readiness_score(returned))
        /\ StatusBand(main.features[feature_name].status) =
               get_readiness_status(calculate_readiness_score(returned))

\* the claim has no charge, its list being empty, null or missing, and a
\* claimed amount other than 0
UnchargedWithAmount(id) ==
    /\ Items(id, "charges") = <<>>
    /\ Doc(id).claimAmount.state = "set"
    /\ Doc(id).claimAmount.value # 0

\* C30: a claim whose charge list is empty or missing and whose claimed amount
\* is not 0 is counted in claim_sum_mismatch, its sum of charges being 0: the
\* count is that of the claims that have charges and mismatch after rounding
\* together with these claims
C30_UnchargedClaimIsMismatch ==
    ClaimsReturned =>
        analysis.report.issues["claim_sum_mismatch"].count =
            Cardinality({id \in Documents(claims) :
                            RoundedMismatch(id) \/ UnchargedWithAmount(id)})
====
